---------------------------- MODULE Spec2Model ----------------------------
(***************************************************************************)
(* The mTLS TCP router of teamycloud/remote-docker-agent:                  *)
(*   pkg/connector/database.go  the authorization store                    *)
(*   pkg/mtls-proxy/identity.go the certificate checks and the identity    *)
(*   pkg/mtls-proxy/proxy.go    the accept loop, the connection handler,   *)
(*                              the splice and the shutdown                *)
(* and, each with a variable of its own:                                   *)
(*   pkg/transparent_ssh_agent/tcp_proxy.go   the transparent TCP proxy    *)
(*   pkg/tsctl/auth/oauth.go                  the device-flow token poll   *)
(*   pkg/tsctl/start.go, daemon.go            the daemon stop protocol     *)
(*   pkg/tcp_agent/tstunnel/*_protocol.go     the cancellable agent dial   *)
(* Strings of the wire protocol are sequences of one-character strings.    *)
(***************************************************************************)
EXTENDS Integers, Sequences, FiniteSets, TLC

VARIABLES
    hosts,      \* table backend_hosts: connect_id -> row, or NoRow
    teams,      \* table teams: team_id -> row, or NoRow
    provCount,  \* writes the external provisioner has made so far
    authCall,   \* the last direct call of a function: inputs and result
    conn,       \* per connection: the handler's position, sockets and streams
    acceptPc,   \* acceptConnections: "accept", "spawn" or "returned"
    accepted,   \* the connection Accept returned and not yet handed to a handler
    ctxDone,    \* p.ctx is cancelled
    listenerClosed, \* p.listener is closed
    wg,         \* p.wg: the counter of the WaitGroup
    stopPc,     \* Stop: "idle", "close", "wait", "select", "dbclose", "returned"
    stopHow,    \* the branch the select of Stop took: "none", "graceful", "timeout"
    doneClosed, \* the done channel of Stop is closed (p.wg.Wait() returned)
    dbClosed,   \* p.db.Close() has been called
    tcpProxy,   \* the TCPProxy of tcp_proxy.go, its goroutines and sockets
    poll,       \* one call of OAuthClient.PollForToken
    daemon,     \* the daemon of tsctl start, its files and the stop command
    connect     \* one call of a tstunnel protocol handler's Connect

dbVars == <<hosts, teams, provCount>>
proxyVars == <<conn, acceptPc, accepted, ctxDone, listenerClosed, wg, stopPc,
               stopHow, doneClosed, dbClosed>>
toolVars == <<tcpProxy, poll, daemon, connect>>
vars == <<hosts, teams, provCount, authCall, conn, acceptPc, accepted, ctxDone,
          listenerClosed, wg, stopPc, stopHow, doneClosed, dbClosed, tcpProxy,
          poll, daemon, connect>>

(***************************************************************************)
(* Bounds of the model.                                                    *)
(***************************************************************************)
MaxProvision == 1
NConn == 1
\* connections spliced at once in SpecIsolation
NSplice == 2

(***************************************************************************)
(* The data of the authorization store.                                    *)
(***************************************************************************)
Orgs == {"o1", "o2"}
Users == {"u1", "u2"}
TeamIDs == {"t1", "t2"}
Addrs == {"", "b1", "b2"}

\* connect ids are what readConnectID can produce: strings of bytes
KeyH == <<"h">>
KeyHX == <<"h", "x">>
ConnectIDs == {KeyH, KeyHX}

NoRow == [none |-> TRUE]
NoErr == <<>>
NoCall == [none |-> TRUE]

\* a component that is not part of the run
NotRunning == [none |-> TRUE]
ToolsIdle ==
    /\ tcpProxy = NotRunning
    /\ poll = NotRunning
    /\ daemon = NotRunning
    /\ connect = NotRunning

\* type BackendHost
HostRows ==
    [InternalIPAddr : Addrs, OrgID : Orgs, UserIDs : SUBSET Users,
     TeamIDs : SUBSET TeamIDs]

\* a row of table teams
TeamRows == [OrgID : Orgs, UserIDs : SUBSET Users]

(***************************************************************************)
(* database.go                                                             *)
(***************************************************************************)
\* fmt.Errorf("<prefix>: %w", err)
Wrap(prefix, err) == <<prefix>> \o err

\* GetBackendHostByConnectID: the row of connect_id, or pgx.ErrNoRows turned
\* into "no backend host found for connect_id '<id>'"
GetBackendHostByConnectID(hs, connectID) ==
    IF connectID \in DOMAIN hs /\ hs[connectID] # NoRow
    THEN [host |-> hs[connectID], err |-> NoErr]
    ELSE [host |-> NoRow,
          err |-> <<"no backend host found for connect_id">> \o connectID]

\* isUserInTeams without the org_id = $1 condition of its query
isUserInTeamsAnyOrg(ts, userID, orgID, teamIDs) ==
    \E t \in teamIDs :
        t \in DOMAIN ts /\ ts[t] # NoRow /\ userID \in ts[t].UserIDs

\* isUserInTeams: SELECT EXISTS(SELECT 1 FROM teams WHERE org_id = $1
\*   AND team_id IN (teamIDs) AND $2 = ANY(user_ids))
isUserInTeams(ts, userID, orgID, teamIDs) ==
    IF teamIDs = {}
    THEN FALSE
    ELSE \E t \in teamIDs :
            /\ t \in DOMAIN ts
            /\ ts[t] # NoRow
            /\ ts[t].OrgID = orgID
            /\ userID \in ts[t].UserIDs

\* an organization check that every organization passes
OrgMatchAny(host, orgID) == TRUE

\* the organization check of IsUserAuthorized
OrgMatch(host, orgID) == host.OrgID = orgID

\* the loop over host.UserIDs of IsUserAuthorized
DirectGrant(host, userID) == userID \in host.UserIDs

\* IsUserAuthorized on one snapshot of the two tables
IsUserAuthorized(hs, ts, userID, orgID, connectID) ==
    LET got == GetBackendHostByConnectID(hs, connectID)
        host == got.host
    IN  IF got.err # NoErr
        THEN [ok |-> FALSE, err |-> got.err]
        ELSE IF ~OrgMatch(host, orgID)
        THEN [ok |-> FALSE, err |-> NoErr]
        ELSE IF DirectGrant(host, userID)
        THEN [ok |-> TRUE, err |-> NoErr]
        ELSE IF host.TeamIDs # {}
                /\ isUserInTeams(ts, userID, orgID, host.TeamIDs)
        THEN [ok |-> TRUE, err |-> NoErr]
        ELSE [ok |-> FALSE, err |-> NoErr]

\* what one database query of RouteConnection ends with when the pool cannot
\* answer (the context is cancelled or timed out, the server is unreachable)
ErrDB == <<"context canceled">>

(***************************************************************************)
(* identity.go: the certificate checks of the handler.  A domain name is   *)
(* its sequence of labels; a URI path is its sequence of tokens, "/" or a   *)
(* maximal run of other characters; a distinguished name is its common     *)
(* name and its organization.                                              *)
(***************************************************************************)
Issuer == <<"tinyscale", "com">>

NoIdentity == [none |-> TRUE]

\* the certificates p.caPool holds: config.LoadCACertPool of two CA files
CAPool == {"CA1", "CA2"}

SpiffeURI(orgID, userID) ==
    [Scheme |-> "spiffe", Host |-> Issuer,
     Path |-> <<"/", "orgs", "/", orgID, "/", "users", "/", userID>>]

\* strings.HasPrefix(uri.Scheme, "spiffe")
HasSpiffePrefix(scheme) == scheme \in {"spiffe", "spiffes"}

\* strings.TrimPrefix(uri.Path, "/")
TrimSlash(path) == IF path # <<>> /\ Head(path) = "/" THEN Tail(path) ELSE path

\* strings.Split(path, "/"): the segments of a path, "" for an empty one
RECURSIVE Split(_)
Split(path) ==
    IF path = <<>> THEN <<"">>
    ELSE IF Head(path) = "/" THEN <<"">> \o Split(Tail(path))
    ELSE IF Tail(path) = <<>> THEN <<Head(path)>>
    ELSE <<Head(path)>> \o Split(Tail(Tail(path)))

ParseFails(message) == [identity |-> NoIdentity, err |-> message]

\* a parse without the tests for empty ids
parseSPIFFEURIKeepsEmpty(uri, expectedIssuer) ==
    LET parts == Split(TrimSlash(uri.Path))
    IN  IF uri.Scheme # "spiffe" THEN ParseFails("invalid URI scheme")
        ELSE IF uri.Host # expectedIssuer THEN ParseFails("issuer mismatch")
        ELSE IF Len(parts) # 4 THEN ParseFails("invalid SPIFFE path format")
        ELSE IF parts[1] # "orgs" \/ parts[3] # "users"
        THEN ParseFails("invalid SPIFFE path")
        ELSE [identity |-> [UserID |-> parts[4], OrgID |-> parts[2],
                            Issuer |-> uri.Host],
              err |-> ""]

\* parseSPIFFEURI
parseSPIFFEURI(uri, expectedIssuer) ==
    LET parts == Split(TrimSlash(uri.Path))
    IN  IF uri.Scheme # "spiffe" THEN ParseFails("invalid URI scheme")
        ELSE IF uri.Host # expectedIssuer THEN ParseFails("issuer mismatch")
        ELSE IF Len(parts) # 4 THEN ParseFails("invalid SPIFFE path format")
        ELSE IF parts[1] # "orgs"
        THEN ParseFails("invalid SPIFFE path: expected 'orgs' as first segment")
        ELSE IF parts[3] # "users"
        THEN ParseFails("invalid SPIFFE path: expected 'users' as third segment")
        ELSE IF parts[2] = "" THEN ParseFails("org-id is empty")
        ELSE IF parts[4] = "" THEN ParseFails("user-id is empty")
        ELSE [identity |-> [UserID |-> parts[4], OrgID |-> parts[2],
                            Issuer |-> uri.Host],
              err |-> ""]

\* an extraction that returns the last URI that parses
RECURSIVE ExtractLast(_, _)
ExtractLast(uris, expectedIssuer) ==
    IF uris = <<>> THEN ParseFails("no valid SPIFFE URI found in certificate")
    ELSE LET rest == ExtractLast(Tail(uris), expectedIssuer)
             got == IF HasSpiffePrefix(Head(uris).Scheme)
                    THEN parseSPIFFEURI(Head(uris), expectedIssuer)
                    ELSE ParseFails("skipped")
         IN  IF rest.identity # NoIdentity THEN rest
             ELSE IF got.identity # NoIdentity THEN got
             ELSE rest

\* the loop of ExtractUserIdentity over cert.URIs: the first URI with the
\* scheme prefix that parses; the error of a URI that does not parse is dropped
RECURSIVE ExtractFrom(_, _)
ExtractFrom(uris, expectedIssuer) ==
    IF uris = <<>> THEN ParseFails("no valid SPIFFE URI found in certificate")
    ELSE LET got == IF HasSpiffePrefix(Head(uris).Scheme)
                    THEN parseSPIFFEURI(Head(uris), expectedIssuer)
                    ELSE ParseFails("skipped")
         IN  IF got.identity # NoIdentity THEN got
             ELSE ExtractFrom(Tail(uris), expectedIssuer)

ExtractUserIdentity(cert, expectedIssuer) == ExtractFrom(cert.URIs, expectedIssuer)

\* ValidateCertificate: cert.Verify with Roots = caPool, no Intermediates,
\* KeyUsages = {clientAuth} and the current time.  cert.Chain names the
\* signers from the certificate's own issuer up to its root.
ValidateCertificate(cert, caPool) ==
    /\ ~cert.Expired
    /\ cert.Chain[1] \in caPool
    /\ cert.ExtKeyUsage = {} \/ cert.ExtKeyUsage \cap {"clientAuth", "any"} # {}

\* strings.HasSuffix(domain, "." + expectedIssuer)
IsSubdomain(domain, parent) ==
    /\ Len(domain) > Len(parent)
    /\ SubSeq(domain, Len(domain) - Len(parent) + 1, Len(domain)) = parent

\* strings.TrimPrefix(d, "*.")
TrimWildcard(d) == IF d # <<>> /\ Head(d) = "*" THEN Tail(d) ELSE d

\* matchesIssuer
matchesIssuer(domain, expectedIssuer) ==
    \/ TrimWildcard(domain) = TrimWildcard(expectedIssuer)
    \/ IsSubdomain(TrimWildcard(domain), TrimWildcard(expectedIssuer))

\* cert.Issuer.String(): "CN=<common name>,O=<organization>"
IssuerString(name) ==
    <<"CN=">> \o name.CommonName \o <<",O=">> \o name.Organization

\* strings.Contains(issuerStr, expectedIssuer) on the labels of the string
ContainsLabels(str, expectedIssuer) ==
    \E i \in 1..Len(str) :
        /\ i + Len(expectedIssuer) - 1 <= Len(str)
        /\ SubSeq(str, i, i + Len(expectedIssuer) - 1) = expectedIssuer

\* ValidateIssuerMatch
ValidateIssuerMatch(cert, expectedIssuer) ==
    \/ /\ cert.Issuer.CommonName # <<>>
       /\ matchesIssuer(cert.Issuer.CommonName, expectedIssuer)
    \/ ContainsLabels(IssuerString(cert.Issuer), expectedIssuer)

\* the distinguished name of the issuing CA of the trust domain
IssuerName == [CommonName |-> <<"ca", "tinyscale", "com">>,
               Organization |-> <<"Tinyscale">>]

\* the client certificates of the model
CertOf(orgID, userID) ==
    [Chain |-> <<"CA1">>, ExtKeyUsage |-> {"clientAuth"}, Expired |-> FALSE,
     Issuer |-> IssuerName, URIs |-> <<SpiffeURI(orgID, userID)>>]
CertUnverified == [CertOf("o1", "u1") EXCEPT !.Chain = <<"CA3">>]
CertViaIntermediate == [CertOf("o1", "u1") EXCEPT !.Chain = <<"I2", "CA2">>]
CertOtherIssuer ==
    [CertOf("o1", "u1") EXCEPT
        !.Issuer = [CommonName |-> <<"evil", "org">>, Organization |-> <<"Evil">>]]
CertNoIdentity ==
    [CertOf("o1", "u1") EXCEPT
        !.URIs = <<[Scheme |-> "https", Host |-> Issuer,
                    Path |-> <<"/", "orgs">>]>>]
Certs ==
    {CertOf(o, u) : o \in Orgs, u \in Users}
        \cup {CertUnverified, CertViaIntermediate, CertOtherIssuer, CertNoIdentity}

(***************************************************************************)
(* The wire: what a client writes reaches the server as a queue of         *)
(* records, one per Write; a Read returns bytes of the first record.       *)
(***************************************************************************)
LF == "\n"
CR == "\r"
ReadBufSize == 256
\* errChan := make(chan error, 2)
ErrChanCap == 2

OKLine == <<"O", "K", LF>>
\* sendError: fmt.Sprintf("ERROR: %s\n", message)
ErrorLine(message) == <<"ERROR: ">> \o message \o <<LF>>

\* the writes a client makes: the key frame, and data for the backend
ClientScripts ==
    { << <<"h", LF>> >>,                 \* the key line alone
      << <<"h", LF>>, <<"d">> >>,        \* the key line, then data
      << <<"h", "x", LF>>, <<"d">> >>,   \* the other key, then data
      << <<"h", CR, LF>> >>,             \* a key line ending CR LF
      << <<LF>> >>,                      \* an empty key
      << <<CR, LF>> >>,                  \* an empty key ending CR LF
      << <<"g", LF>> >>,                 \* a key no host has
      << <<"h">>, <<"x", LF>> >>,        \* the key line split over two writes
      << <<"h", LF, "d">> >> }           \* the key line and data in one write

\* the writes a backend makes once connected
BackendScripts == { <<>>, << <<"r">> >> }

(***************************************************************************)
(* proxy.go: the state of one accepted connection                          *)
(***************************************************************************)
Conns == 1..NConn

NewConn ==
    [pc |-> "new",            \* the handler's position
     hs |-> FALSE,            \* the TLS handshake had completed when inspected
     cert |-> CertNoIdentity, \* state.PeerCertificates[0]
     identity |-> NoIdentity,
     script |-> <<>>,         \* every write the client makes (never changed)
     clientIn |-> <<>>,       \* client writes the server has not read yet
     clientEOF |-> FALSE,     \* the client has closed its end
     readDeadline |-> FALSE,  \* a read deadline is set on the client socket
     connectID |-> <<>>,
     host |-> NoRow,          \* the row IsUserAuthorized fetched
     target |-> "",           \* RouteTarget.BackendAddr
     rowOrg |-> "",           \* org_id of the row the target was read from
     queries |-> 0,           \* database queries made for this connection
     routed |-> "none",       \* RouteConnection: "none", "ok", "err"
     dialed |-> "none",       \* net.DialTimeout: "none", "ok", "err"
     toClient |-> <<>>,       \* the writes the server made to the client
     clientClosed |-> FALSE,  \* the server closed the client socket
     backendClosed |-> FALSE, \* the server closed the backend socket
     bscript |-> <<>>,        \* every write the backend makes (never changed)
     backendIn |-> <<>>,      \* backend writes the server has not read yet
     backendEOF |-> FALSE,    \* the backend has closed its end
     toBackend |-> <<>>,      \* the bytes the server wrote to the backend
     c2b |-> "idle",          \* goroutine io.Copy(backendConn, clientConn)
     b2c |-> "idle",          \* goroutine io.Copy(clientConn, backendConn)
     errChan |-> <<>>]        \* the buffered channel of the two results

RECURSIVE Flatten(_)
Flatten(records) ==
    IF records = <<>> THEN <<>> ELSE Head(records) \o Flatten(Tail(records))

Min(a, b) == IF a < b THEN a ELSE b

\* the deferred calls of handleConnection and proxyToBackend on return
Returned(r) ==
    [r EXCEPT !.pc = "done", !.clientClosed = TRUE,
              !.backendClosed = (r.dialed = "ok")]

\* the initial content of the two tables in the proxy's specification
InitHosts ==
    (KeyH :> [InternalIPAddr |-> "b1", OrgID |-> "o1", UserIDs |-> {"u1"},
              TeamIDs |-> {}])
    @@ (KeyHX :> [InternalIPAddr |-> "b2", OrgID |-> "o2", UserIDs |-> {"u1"},
                  TeamIDs |-> {"t1", "t2"}])
InitTeams ==
    ("t1" :> [OrgID |-> "o1", UserIDs |-> {"u2"}])
    @@ ("t2" :> [OrgID |-> "o2", UserIDs |-> {"u2"}])

\* rows the external provisioner writes over a host's row
ProvRows ==
    { NoRow,
      [InternalIPAddr |-> "", OrgID |-> "o1", UserIDs |-> {"u1"}, TeamIDs |-> {}],
      [InternalIPAddr |-> "b2", OrgID |-> "o2", UserIDs |-> {"u2"},
       TeamIDs |-> {}] }

InitProxy ==
    /\ conn = [c \in Conns |-> NewConn]
    /\ acceptPc = "accept"
    /\ accepted = 0
    /\ ctxDone = FALSE
    /\ listenerClosed = FALSE
    /\ wg = 1
    /\ stopPc = "idle"
    /\ stopHow = "none"
    /\ doneClosed = FALSE
    /\ dbClosed = FALSE

Init ==
    /\ hosts = InitHosts
    /\ teams = InitTeams
    /\ provCount = 0
    /\ authCall = NoCall
    /\ InitProxy
    /\ ToolsIdle

\* the external provisioning process updates or deletes a row of backend_hosts
Provision(k, row) ==
    /\ provCount < MaxProvision
    /\ hosts[k] # row
    /\ hosts' = [hosts EXCEPT ![k] = row]
    /\ provCount' = provCount + 1
    /\ UNCHANGED <<toolVars, teams, authCall, proxyVars>>

(***************************************************************************)
(* acceptConnections                                                       *)
(***************************************************************************)
\* p.listener.Accept() returns a connection
AcceptConn(c) ==
    /\ acceptPc = "accept"
    /\ ~listenerClosed
    /\ conn[c].pc = "new"
    /\ \A d \in Conns : d < c => conn[d].pc # "new"
    /\ accepted' = c
    /\ acceptPc' = "spawn"
    /\ conn' = [conn EXCEPT ![c].pc = "accepted"]
    /\ UNCHANGED <<toolVars, dbVars, authCall, ctxDone, listenerClosed, wg, stopPc,
                   stopHow, doneClosed, dbClosed>>

\* an accept loop that returns on every error of Accept
AcceptErrorAlwaysReturns ==
    /\ acceptPc = "accept"
    /\ acceptPc' = "returned"
    /\ wg' = wg - 1
    /\ UNCHANGED <<toolVars, dbVars, authCall, conn, accepted, ctxDone, listenerClosed,
                   stopPc, stopHow, doneClosed, dbClosed>>

\* p.listener.Accept() returns an error: the loop returns once p.ctx is done
\* and goes round again otherwise
AcceptError ==
    /\ acceptPc = "accept"
    /\ \/ /\ ctxDone
          /\ acceptPc' = "returned"
          /\ wg' = wg - 1
       \/ /\ ~ctxDone
          /\ UNCHANGED <<acceptPc, wg>>
    /\ UNCHANGED <<toolVars, dbVars, authCall, conn, accepted, ctxDone, listenerClosed,
                   stopPc, stopHow, doneClosed, dbClosed>>

\* a dispatch without p.wg.Add(1)
SpawnHandlerNoAdd ==
    /\ acceptPc = "spawn"
    /\ wg' = wg
    /\ conn' = [conn EXCEPT ![accepted].pc = "start"]
    /\ acceptPc' = "accept"
    /\ UNCHANGED <<toolVars, dbVars, authCall, accepted, ctxDone, listenerClosed, stopPc,
                   stopHow, doneClosed, dbClosed>>

\* p.wg.Add(1); go handleConnection(conn)
SpawnHandler ==
    /\ acceptPc = "spawn"
    /\ wg' = wg + 1
    /\ conn' = [conn EXCEPT ![accepted].pc = "start"]
    /\ acceptPc' = "accept"
    /\ UNCHANGED <<toolVars, dbVars, authCall, accepted, ctxDone, listenerClosed, stopPc,
                   stopHow, doneClosed, dbClosed>>

(***************************************************************************)
(* handleConnection                                                        *)
(***************************************************************************)
\* what every handler step leaves alone
HandlerFrame ==
    UNCHANGED <<toolVars, dbVars, authCall, acceptPc, accepted, ctxDone, listenerClosed,
                stopPc, stopHow, doneClosed, dbClosed>>

\* the handler returns: its deferred calls run, then p.wg.Done()
HandlerReturns(c, r) ==
    /\ conn' = [conn EXCEPT ![c] = Returned(r)]
    /\ wg' = wg - 1

HandlerGoes(c, r) ==
    /\ conn' = [conn EXCEPT ![c] = r]
    /\ wg' = wg

\* sendError that writes nothing
sendErrorNothing(r, message) == r

\* sendError
sendError(r, message) ==
    [r EXCEPT !.toClient = Append(@, ErrorLine(message))]

\* RouteConnection failed: "routing failed: <err>" is sent and the handler returns
RouteFails(c, r, err) ==
    HandlerReturns(c, sendError([r EXCEPT !.routed = "err"],
                                Wrap("routing failed", err)))

\* certificate checks that report their failure to the client
AuthenticateSendsError(c) ==
    /\ conn[c].pc = "start"
    /\ \E hs \in BOOLEAN, cert \in Certs :
        LET r == [conn[c] EXCEPT !.hs = hs, !.cert = IF hs THEN cert ELSE @]
            id == ExtractUserIdentity(cert, Issuer).identity
        IN  IF ~hs
            THEN HandlerReturns(c, r)
            ELSE IF \/ ~ValidateCertificate(cert, CAPool)
                    \/ ~ValidateIssuerMatch(cert, Issuer)
                    \/ id = NoIdentity
            THEN HandlerReturns(c, sendError(r, <<"authentication failed">>))
            ELSE HandlerGoes(c, [r EXCEPT !.identity = id, !.pc = "readKey"])
    /\ HandlerFrame

\* the certificate checks without the validation of the issuer
AuthenticateSkipsIssuer(c) ==
    /\ conn[c].pc = "start"
    /\ \E hs \in BOOLEAN, cert \in Certs :
        LET r == [conn[c] EXCEPT !.hs = hs, !.cert = IF hs THEN cert ELSE @]
            id == ExtractUserIdentity(cert, Issuer).identity
        IN  IF ~hs
            THEN HandlerReturns(c, r)
            ELSE IF ~ValidateCertificate(cert, CAPool)
            THEN HandlerReturns(c, r)
            ELSE IF id = NoIdentity
            THEN HandlerReturns(c, r)
            ELSE HandlerGoes(c, [r EXCEPT !.identity = id, !.pc = "readKey"])
    /\ HandlerFrame

\* the certificate checks of handleConnection, up to ExtractUserIdentity.
\* crypto/tls hands out the connection of Accept before the handshake has run;
\* hs is what ConnectionState() reports when the handler asks.
Authenticate(c) ==
    /\ conn[c].pc = "start"
    /\ \E hs \in BOOLEAN, cert \in Certs :
        LET r == [conn[c] EXCEPT !.hs = hs, !.cert = IF hs THEN cert ELSE @]
            id == ExtractUserIdentity(cert, Issuer).identity
        IN  IF ~hs                                      \* no PeerCertificates
            THEN HandlerReturns(c, r)
            ELSE IF ~ValidateCertificate(cert, CAPool)
            THEN HandlerReturns(c, r)
            ELSE IF ~ValidateIssuerMatch(cert, Issuer)
            THEN HandlerReturns(c, r)
            ELSE IF id = NoIdentity
            THEN HandlerReturns(c, r)
            ELSE HandlerGoes(c, [r EXCEPT !.identity = id, !.pc = "readKey"])
    /\ HandlerFrame

\* the bytes one conn.Read(buf) returns from a queue of records
ReadBytes(queue) == SubSeq(Head(queue), 1, Min(Len(Head(queue)), ReadBufSize))

\* the queue after that Read
ReadRest(queue) ==
    IF Len(Head(queue)) > ReadBufSize
    THEN <<SubSeq(Head(queue), ReadBufSize + 1, Len(Head(queue)))>> \o Tail(queue)
    ELSE Tail(queue)

DropLast(str) == SubSeq(str, 1, Len(str) - 1)

\* the parse without the removal of the carriage return
ParseConnectIDKeepCR(buf) ==
    IF Len(buf) > 0 /\ buf[Len(buf)] = LF THEN DropLast(buf) ELSE buf

\* readConnectID: the parse of buf[:n]
ParseConnectID(buf) ==
    LET a == IF Len(buf) > 0 /\ buf[Len(buf)] = LF THEN DropLast(buf) ELSE buf
    IN  IF Len(a) > 0 /\ a[Len(a)] = CR THEN DropLast(a) ELSE a

\* readConnectID: conn.SetReadDeadline(time.Now().Add(10 * time.Second)); the
\* socket is open here, so the call does not fail
SetReadDeadline(c) ==
    /\ conn[c].pc = "readKey"
    /\ ~conn[c].readDeadline
    /\ HandlerGoes(c, [conn[c] EXCEPT !.readDeadline = TRUE])
    /\ HandlerFrame

\* the rest of readConnectID without the deferred SetReadDeadline(time.Time{})
ReadConnectIDKeepsDeadline(c) ==
    /\ conn[c].pc = "readKey"
    /\ conn[c].readDeadline
    /\ \E script \in ClientScripts \cup {<<>>} :
        LET r == [conn[c] EXCEPT !.script = script, !.clientIn = script]
        IN  IF script = <<>>
            THEN HandlerReturns(c, r)
            ELSE LET id == ParseConnectID(ReadBytes(script))
                     r2 == [r EXCEPT !.clientIn = ReadRest(script)]
                 IN  IF id = <<>>
                     THEN HandlerReturns(c, r2)
                     ELSE HandlerGoes(c, [r2 EXCEPT !.connectID = id,
                                                    !.pc = "route"])
    /\ HandlerFrame

\* the rest of readConnectID and the handler's test of its result; the deferred
\* conn.SetReadDeadline(time.Time{}) runs on each of its returns
ReadConnectID(c) ==
    /\ conn[c].pc = "readKey"
    /\ conn[c].readDeadline
    /\ \E script \in ClientScripts \cup {<<>>} :
        LET r == [conn[c] EXCEPT !.script = script, !.clientIn = script,
                                 !.readDeadline = FALSE]
        IN  IF script = <<>>             \* Read fails: deadline, EOF or reset
            THEN HandlerReturns(c, r)
            ELSE LET id == ParseConnectID(ReadBytes(script))
                     r2 == [r EXCEPT !.clientIn = ReadRest(script)]
                 IN  IF id = <<>>        \* "empty connect_id"
                     THEN HandlerReturns(c, r2)
                     ELSE HandlerGoes(c, [r2 EXCEPT !.connectID = id,
                                                    !.pc = "route"])
    /\ HandlerFrame

\* a pool that answers whatever the state of the context
DbUpIgnoresContext == ~dbClosed

\* a query is answered only while the handler's context is live and the pool open
DbUp == ~ctxDone /\ ~dbClosed

NotAuthorized(r) ==
    <<"user", r.identity.UserID, "is not authorized to access host">>
        \o r.connectID

\* RouteConnection, first query: IsUserAuthorized fetches the host and tests the
\* organization and the direct grant
RouteAuthorize(c) ==
    /\ conn[c].pc = "route"
    /\ LET r == [conn[c] EXCEPT !.queries = @ + 1]
           got == GetBackendHostByConnectID(hosts, r.connectID)
       IN  \/ RouteFails(c, r, Wrap("authorization check failed",
                                    Wrap("failed to query backend host", ErrDB)))
           \/ /\ DbUp
              /\ IF got.err # NoErr
                 THEN RouteFails(c, r, Wrap("authorization check failed", got.err))
                 ELSE IF ~OrgMatch(got.host, r.identity.OrgID)
                 THEN RouteFails(c, r, NotAuthorized(r))
                 ELSE IF DirectGrant(got.host, r.identity.UserID)
                 THEN HandlerGoes(c, [r EXCEPT !.host = got.host, !.pc = "fetch"])
                 ELSE IF got.host.TeamIDs # {}
                 THEN HandlerGoes(c, [r EXCEPT !.host = got.host, !.pc = "teamq"])
                 ELSE RouteFails(c, r, NotAuthorized(r))
    /\ HandlerFrame

\* RouteConnection, the team query of IsUserAuthorized
RouteTeamQuery(c) ==
    /\ conn[c].pc = "teamq"
    /\ LET r == [conn[c] EXCEPT !.queries = @ + 1]
       IN  \/ RouteFails(c, r,
                Wrap("authorization check failed",
                  Wrap("failed to check team membership",
                    Wrap("failed to check team membership", ErrDB))))
           \/ /\ DbUp
              /\ IF isUserInTeams(teams, r.identity.UserID, r.identity.OrgID,
                                  r.host.TeamIDs)
                 THEN HandlerGoes(c, [r EXCEPT !.pc = "fetch"])
                 ELSE RouteFails(c, r, NotAuthorized(r))
    /\ HandlerFrame

\* a second fetch that returns the RouteTarget of a host without an address
RouteFetchAnyAddress(c) ==
    /\ conn[c].pc = "fetch"
    /\ LET r == [conn[c] EXCEPT !.queries = @ + 1]
           got == GetBackendHostByConnectID(hosts, r.connectID)
       IN  \/ RouteFails(c, r, Wrap("failed to query backend host", ErrDB))
           \/ /\ DbUp
              /\ IF got.err # NoErr
                 THEN RouteFails(c, r, got.err)
                 ELSE HandlerGoes(c, [r EXCEPT !.routed = "ok",
                                        !.target = got.host.InternalIPAddr,
                                        !.rowOrg = got.host.OrgID,
                                        !.pc = "dial"])
    /\ HandlerFrame

\* RouteConnection, the second fetch of the host and the RouteTarget
RouteFetch(c) ==
    /\ conn[c].pc = "fetch"
    /\ LET r == [conn[c] EXCEPT !.queries = @ + 1]
           got == GetBackendHostByConnectID(hosts, r.connectID)
       IN  \/ RouteFails(c, r, Wrap("failed to query backend host", ErrDB))
           \/ /\ DbUp
              /\ IF got.err # NoErr
                 THEN RouteFails(c, r, got.err)
                 ELSE IF got.host.InternalIPAddr = ""
                 THEN RouteFails(c, r, <<"backend host">> \o r.connectID
                                         \o <<"has no internal IP address">>)
                 ELSE HandlerGoes(c, [r EXCEPT !.routed = "ok",
                                        !.target = got.host.InternalIPAddr,
                                        !.rowOrg = got.host.OrgID,
                                        !.pc = "dial"])
    /\ HandlerFrame

(***************************************************************************)
(* proxyToBackend                                                          *)
(***************************************************************************)
\* proxyToBackend writing "OK\n" before the dial has succeeded
DialBackendOKFirst(c) ==
    /\ conn[c].pc = "dial"
    /\ HandlerReturns(c, [conn[c] EXCEPT !.dialed = "err",
                                         !.toClient = Append(@, OKLine)])
    /\ HandlerFrame

\* net.DialTimeout, then the write of "OK\n" and the start of the two copies.
\* A failed dial, or a failed write of OK, makes proxyToBackend return its
\* error, which handleConnection logs.
DialBackend(c) ==
    /\ conn[c].pc = "dial"
    /\ \/ HandlerReturns(c, [conn[c] EXCEPT !.dialed = "err"])
       \/ \E bs \in BackendScripts :
            HandlerGoes(c, [conn[c] EXCEPT !.dialed = "ok", !.bscript = bs,
                                           !.backendIn = bs,
                                           !.toClient = Append(@, OKLine),
                                           !.c2b = "run", !.b2c = "run",
                                           !.pc = "splice"])
       \/ /\ conn[c].clientEOF          \* the write of OK fails
          /\ HandlerReturns(c, [conn[c] EXCEPT !.dialed = "ok"])
    /\ HandlerFrame

\* go io.Copy(backendConn, clientConn); errChan <- err
CopyClientToBackend(c) ==
    LET r == conn[c]
        open == ~r.clientClosed /\ ~r.backendClosed
        done(res) == [r EXCEPT !.c2b = "done", !.errChan = Append(@, res)]
        send == Len(r.errChan) < ErrChanCap  \* a send on a full channel blocks
    IN  /\ r.c2b = "run"
        /\ \/ /\ open /\ r.clientIn # <<>> /\ ~r.backendEOF
              /\ HandlerGoes(c, [r EXCEPT
                    !.toBackend = @ \o ReadBytes(r.clientIn),
                    !.clientIn = ReadRest(r.clientIn)])
           \/ /\ open /\ r.clientIn # <<>> /\ r.backendEOF   \* broken pipe
              /\ send
              /\ HandlerGoes(c, done("pipe"))
           \/ /\ open /\ r.clientIn = <<>> /\ r.clientEOF    \* io.EOF: nil
              /\ send
              /\ HandlerGoes(c, done("nil"))
           \/ /\ ~open                  \* use of closed network connection
              /\ send
              /\ HandlerGoes(c, done("closed"))
        /\ HandlerFrame

\* go io.Copy(clientConn, backendConn); errChan <- err
CopyBackendToClient(c) ==
    LET r == conn[c]
        open == ~r.clientClosed /\ ~r.backendClosed
        done(res) == [r EXCEPT !.b2c = "done", !.errChan = Append(@, res)]
        send == Len(r.errChan) < ErrChanCap  \* a send on a full channel blocks
    IN  /\ r.b2c = "run"
        /\ \/ /\ open /\ r.backendIn # <<>> /\ ~r.clientEOF
              /\ HandlerGoes(c, [r EXCEPT
                    !.toClient = Append(@, ReadBytes(r.backendIn)),
                    !.backendIn = ReadRest(r.backendIn)])
           \/ /\ open /\ r.backendIn # <<>> /\ r.clientEOF   \* broken pipe
              /\ send
              /\ HandlerGoes(c, done("pipe"))
           \/ /\ open /\ r.backendIn = <<>> /\ r.backendEOF  \* io.EOF: nil
              /\ send
              /\ HandlerGoes(c, done("nil"))
           \/ /\ ~open
              /\ send
              /\ HandlerGoes(c, done("closed"))
        /\ HandlerFrame

\* the first receive without the two Close calls
ProxyFirstDoneNoClose(c) ==
    /\ conn[c].pc = "splice"
    /\ conn[c].errChan # <<>>
    /\ HandlerGoes(c, [conn[c] EXCEPT !.errChan = Tail(@), !.pc = "wait2"])
    /\ HandlerFrame

\* a first receive that closes the sockets of every connection
ProxyFirstDoneClosesAll(c) ==
    /\ conn[c].pc = "splice"
    /\ conn[c].errChan # <<>>
    /\ conn' = [d \in DOMAIN conn |->
                  IF d = c
                  THEN [conn[d] EXCEPT !.errChan = Tail(@), !.clientClosed = TRUE,
                                       !.backendClosed = TRUE, !.pc = "wait2"]
                  ELSE [conn[d] EXCEPT !.clientClosed = TRUE,
                                       !.backendClosed = TRUE]]
    /\ wg' = wg
    /\ HandlerFrame

\* err = <-errChan; clientConn.Close(); backendConn.Close()
ProxyFirstDone(c) ==
    /\ conn[c].pc = "splice"
    /\ conn[c].errChan # <<>>
    /\ HandlerGoes(c, [conn[c] EXCEPT !.errChan = Tail(@), !.clientClosed = TRUE,
                                      !.backendClosed = TRUE, !.pc = "wait2"])
    /\ HandlerFrame

\* a handler that reports the error of proxyToBackend to the client
ProxySecondDoneSendsError(c) ==
    /\ conn[c].pc = "wait2"
    /\ conn[c].errChan # <<>>
    /\ HandlerReturns(c, sendError([conn[c] EXCEPT !.errChan = Tail(@)],
                                   <<"proxy error">>))
    /\ HandlerFrame

\* <-errChan, and the return of proxyToBackend and of handleConnection
ProxySecondDone(c) ==
    /\ conn[c].pc = "wait2"
    /\ conn[c].errChan # <<>>
    /\ HandlerReturns(c, [conn[c] EXCEPT !.errChan = Tail(@)])
    /\ HandlerFrame

\* the client closes its end; nothing in the handler observes it before the dial
ClientClose(c) ==
    /\ conn[c].pc \in {"dial", "splice"}
    /\ ~conn[c].clientEOF
    /\ HandlerGoes(c, [conn[c] EXCEPT !.clientEOF = TRUE])
    /\ HandlerFrame

\* the backend closes its end
BackendClose(c) ==
    /\ conn[c].pc = "splice"
    /\ ~conn[c].backendEOF
    /\ HandlerGoes(c, [conn[c] EXCEPT !.backendEOF = TRUE])
    /\ HandlerFrame

(***************************************************************************)
(* Stop                                                                    *)
(***************************************************************************)
StopFrame == UNCHANGED <<toolVars, dbVars, authCall, conn, acceptPc, accepted, wg>>

\* p.cancel()
StopCancel ==
    /\ stopPc = "idle"
    /\ ctxDone' = TRUE
    /\ stopPc' = "close"
    /\ UNCHANGED <<listenerClosed, stopHow, doneClosed, dbClosed>>
    /\ StopFrame

\* p.listener.Close(), and the start of the goroutine of p.wg.Wait()
StopCloseListener ==
    /\ stopPc = "close"
    /\ listenerClosed' = TRUE
    /\ stopPc' = "select"
    /\ UNCHANGED <<ctxDone, stopHow, doneClosed, dbClosed>>
    /\ StopFrame

\* go func() { p.wg.Wait(); close(done) }()
WaitGroupDone ==
    /\ stopPc \in {"select", "dbclose", "returned"}
    /\ ~doneClosed
    /\ wg = 0
    /\ doneClosed' = TRUE
    /\ UNCHANGED <<ctxDone, listenerClosed, stopPc, stopHow, dbClosed>>
    /\ StopFrame

\* select: case <-done
StopSelectDone ==
    /\ stopPc = "select"
    /\ doneClosed
    /\ stopHow' = "graceful"
    /\ stopPc' = "dbclose"
    /\ UNCHANGED <<ctxDone, listenerClosed, doneClosed, dbClosed>>
    /\ StopFrame

\* a select without the time.After case
StopSelectNoTimer == FALSE /\ UNCHANGED vars

\* select: case <-time.After(30 * time.Second)
StopSelectTimeout ==
    /\ stopPc = "select"
    /\ stopHow' = "timeout"
    /\ stopPc' = "dbclose"
    /\ UNCHANGED <<ctxDone, listenerClosed, doneClosed, dbClosed>>
    /\ StopFrame

\* p.db.Close(); return nil
StopDbClose ==
    /\ stopPc = "dbclose"
    /\ dbClosed' = TRUE
    /\ stopPc' = "returned"
    /\ UNCHANGED <<ctxDone, listenerClosed, stopHow, doneClosed>>
    /\ StopFrame

(***************************************************************************)
(* Spec: the proxy, its clients and backends, and the provisioner          *)
(***************************************************************************)
Next ==
    \/ \E k \in ConnectIDs, row \in ProvRows : Provision(k, row)
    \/ \E c \in Conns : AcceptConn(c)
    \/ AcceptError
    \/ SpawnHandler
    \/ \E c \in Conns : Authenticate(c)
    \/ \E c \in Conns : SetReadDeadline(c)
    \/ \E c \in Conns : ReadConnectID(c)
    \/ \E c \in Conns : RouteAuthorize(c)
    \/ \E c \in Conns : RouteTeamQuery(c)
    \/ \E c \in Conns : RouteFetch(c)
    \/ \E c \in Conns : DialBackend(c)
    \/ \E c \in Conns : CopyClientToBackend(c)
    \/ \E c \in Conns : CopyBackendToClient(c)
    \/ \E c \in Conns : ProxyFirstDone(c)
    \/ \E c \in Conns : ProxySecondDone(c)
    \/ \E c \in Conns : ClientClose(c)
    \/ \E c \in Conns : BackendClose(c)
    \/ StopCancel
    \/ StopCloseListener
    \/ WaitGroupDone
    \/ StopSelectDone
    \/ StopSelectTimeout
    \/ StopDbClose

Spec == Init /\ [][Next]_vars

\* Stop runs on its own goroutine and none of its steps waits for another
\* goroutine, but the select, whose timer fires after 30 s
SpecLive ==
    /\ Spec
    /\ WF_vars(StopCloseListener)
    /\ WF_vars(StopSelectDone)
    /\ WF_vars(StopSelectTimeout)
    /\ WF_vars(StopDbClose)

\* SpecLive, and the goroutine of acceptConnections is scheduled: Accept on a
\* closed listener returns its error, and an accepted connection is dispatched
SpecShutdown ==
    /\ SpecLive
    /\ WF_vars(listenerClosed /\ AcceptError)
    /\ WF_vars(SpawnHandler)

(***************************************************************************)
(* SpecPanic: Spec, and a run-time panic inside a handler.  The goroutine   *)
(* of a handler is go func() { defer p.wg.Done(); p.handleConnection(conn) }*)
(* and nothing on its stack calls recover: the deferred calls run, then the *)
(* Go runtime ends the process, and with it every goroutine and socket.    *)
(***************************************************************************)
HandlerRunning(r) ==
    r.pc \in {"start", "readKey", "route", "teamq", "fetch", "dial", "splice",
              "wait2"}

\* what the end of the process leaves of a connection
Crashed(r) ==
    IF r.pc \in {"new", "done"} THEN r
    ELSE [r EXCEPT !.pc = "crashed", !.clientClosed = TRUE,
                   !.backendClosed = (r.pc \in {"splice", "wait2"}),
                   !.c2b = IF @ = "run" THEN "crashed" ELSE @,
                   !.b2c = IF @ = "run" THEN "crashed" ELSE @]

HandlerPanics(c) ==
    /\ HandlerRunning(conn[c])
    /\ conn' = [d \in DOMAIN conn |-> Crashed(conn[d])]
    /\ wg' = wg - 1
    /\ acceptPc' = "crashed"
    /\ stopPc' = "crashed"
    /\ UNCHANGED <<toolVars, dbVars, authCall, accepted, ctxDone, listenerClosed, stopHow,
                   doneClosed, dbClosed>>

NextPanic ==
    \/ Next
    \/ \E c \in Conns : HandlerPanics(c)

SpecPanic == Init /\ [][NextPanic]_vars

(***************************************************************************)
(* SpecIsolation: NSplice connections that are spliced at the same time,   *)
(* each to its own backend, up to their teardown and to Stop                *)
(***************************************************************************)
SpliceConns == 1..NSplice

\* the connection of a handler that has authenticated cert, read the first
\* record of script as the key of host, dialed host's address and written OK
SplicedConn(cert, script, host, bs) ==
    [NewConn EXCEPT
        !.pc = "splice", !.hs = TRUE, !.cert = cert,
        !.identity = ExtractUserIdentity(cert, Issuer).identity,
        !.script = script, !.clientIn = ReadRest(script),
        !.connectID = ParseConnectID(ReadBytes(script)),
        !.host = host, !.target = host.InternalIPAddr, !.rowOrg = host.OrgID,
        !.queries = 2, !.routed = "ok", !.dialed = "ok",
        !.toClient = <<OKLine>>, !.bscript = bs, !.backendIn = bs,
        !.c2b = "run", !.b2c = "run"]

\* odd connections are of user u1 of o1 on host h, even ones of u1 of o2 on hx
SplicedConnsOf(c) ==
    IF c % 2 = 1
    THEN {SplicedConn(CertOf("o1", "u1"), script, InitHosts[KeyH], bs) :
            script \in {<< <<"h", LF>> >>, << <<"h", LF>>, <<"d">> >>},
            bs \in BackendScripts}
    ELSE {SplicedConn(CertOf("o2", "u1"), << <<"h", "x", LF>>, <<"d">> >>,
                      InitHosts[KeyHX], bs) : bs \in BackendScripts}

InitIsolation ==
    /\ hosts = InitHosts
    /\ teams = InitTeams
    /\ provCount = 0
    /\ authCall = NoCall
    /\ conn \in {f \in [SpliceConns -> UNION {SplicedConnsOf(c) : c \in SpliceConns}] :
                    \A c \in SpliceConns : f[c] \in SplicedConnsOf(c)}
    /\ acceptPc = "accept"
    /\ accepted = NSplice
    /\ ctxDone = FALSE
    /\ listenerClosed = FALSE
    /\ wg = 1 + NSplice
    /\ stopPc = "idle"
    /\ stopHow = "none"
    /\ doneClosed = FALSE
    /\ dbClosed = FALSE
    /\ ToolsIdle

NextIsolation ==
    \/ \E c \in SpliceConns : CopyClientToBackend(c)
    \/ \E c \in SpliceConns : CopyBackendToClient(c)
    \/ \E c \in SpliceConns : ProxyFirstDone(c)
    \/ \E c \in SpliceConns : ProxySecondDone(c)
    \/ \E c \in SpliceConns : ClientClose(c)
    \/ \E c \in SpliceConns : BackendClose(c)
    \/ AcceptError
    \/ StopCancel
    \/ StopCloseListener
    \/ WaitGroupDone
    \/ StopSelectDone
    \/ StopSelectTimeout
    \/ StopDbClose

SpecIsolation == InitIsolation /\ [][NextIsolation]_vars

(***************************************************************************)
(* SpecIdentity: the functions of identity.go applied to the certificate   *)
(* of connection 1, over the certificates, pools and issuers of the bounds *)
(***************************************************************************)
Chains == {<<"CA1">>, <<"CA2">>, <<"I2", "CA2">>, <<"CA3">>}
ExtKeyUsages == {{}, {"clientAuth"}, {"serverAuth"}, {"serverAuth", "clientAuth"}}
Pools == SUBSET CAPool
ExpectedIssuers == {Issuer, <<"example", "org">>}

IssuerNames ==
    [CommonName : {<<>>, Issuer, <<"ca", "tinyscale", "com">>,
                   <<"*", "tinyscale", "com">>, <<"evil", "org">>,
                   <<"tinyscale", "com", "evil", "org">>, <<"example", "org">>},
     Organization : {<<>>, <<"Evil">>, Issuer}]

TestPaths ==
    { <<"/", "orgs", "/", "o1", "/", "users", "/", "u1">>,
      <<"/", "orgs", "/", "o2", "/", "users", "/", "u2">>,
      <<"/", "orgs", "/", "o1", "/", "users", "/", "u2">>,
      <<"/", "orgs", "/", "o1", "/", "users">>,
      <<"/", "orgs", "/", "o1", "/", "users", "/">>,
      <<"/", "orgs", "/", "/", "users", "/", "u1">>,
      <<"/", "org", "/", "o1", "/", "users", "/", "u1">>,
      <<"/", "orgs", "/", "o1", "/", "user", "/", "u1">>,
      <<"/", "orgs", "/", "o1", "/", "users", "/", "u1", "/">>,
      <<"/", "/", "orgs", "/", "o1", "/", "users", "/", "u1">>,
      <<"/", "users", "/", "u1", "/", "orgs", "/", "o1">>,
      <<>> }

GoodPath == <<"/", "orgs", "/", "o1", "/", "users", "/", "u1">>

TestURIs ==
    {[Scheme |-> "spiffe", Host |-> Issuer, Path |-> p] : p \in TestPaths}
    \cup [Scheme : {"spiffe", "spiffes", "https"},
          Host : {Issuer, <<"evil", "org">>},
          Path : {GoodPath}]

MaxURIs == 2

URILists == UNION {[1..n -> TestURIs] : n \in 0..MaxURIs}

\* certificates that differ in what one of the three checks looks at
TestCerts ==
    {[CertOf("o1", "u1") EXCEPT !.Chain = ch, !.ExtKeyUsage = eku, !.Expired = ex] :
        ch \in Chains, eku \in ExtKeyUsages, ex \in BOOLEAN}
    \cup {[CertOf("o1", "u1") EXCEPT !.Issuer = n] : n \in IssuerNames}
    \cup {[CertOf("o1", "u1") EXCEPT !.URIs = us] : us \in URILists}

InitIdentity ==
    /\ hosts = InitHosts
    /\ teams = InitTeams
    /\ provCount = 0
    /\ authCall = NoCall
    /\ \E cert \in TestCerts : conn = [c \in Conns |-> [NewConn EXCEPT !.cert = cert]]
    /\ acceptPc = "accept"
    /\ accepted = 0
    /\ ctxDone = FALSE
    /\ listenerClosed = FALSE
    /\ wg = 1
    /\ stopPc = "idle"
    /\ stopHow = "none"
    /\ doneClosed = FALSE
    /\ dbClosed = FALSE
    /\ ToolsIdle

CallValidateCertificate(caPool) ==
    /\ authCall = NoCall
    /\ authCall' = [fn |-> "ValidateCertificate", cert |-> conn[1].cert,
                    caPool |-> caPool,
                    ok |-> ValidateCertificate(conn[1].cert, caPool)]
    /\ UNCHANGED <<toolVars, dbVars, proxyVars>>

CallValidateIssuerMatch(expectedIssuer) ==
    /\ authCall = NoCall
    /\ authCall' = [fn |-> "ValidateIssuerMatch", cert |-> conn[1].cert,
                    expectedIssuer |-> expectedIssuer,
                    ok |-> ValidateIssuerMatch(conn[1].cert, expectedIssuer)]
    /\ UNCHANGED <<toolVars, dbVars, proxyVars>>

CallExtractUserIdentity(expectedIssuer) ==
    /\ authCall = NoCall
    /\ authCall' = [fn |-> "ExtractUserIdentity", cert |-> conn[1].cert,
                    expectedIssuer |-> expectedIssuer,
                    result |-> ExtractUserIdentity(conn[1].cert, expectedIssuer)]
    /\ UNCHANGED <<toolVars, dbVars, proxyVars>>

CallParseSPIFFEURI(i, expectedIssuer) ==
    /\ authCall = NoCall
    /\ i \in DOMAIN conn[1].cert.URIs
    /\ authCall' = [fn |-> "parseSPIFFEURI", uri |-> conn[1].cert.URIs[i],
                    expectedIssuer |-> expectedIssuer,
                    result |-> parseSPIFFEURI(conn[1].cert.URIs[i], expectedIssuer)]
    /\ UNCHANGED <<toolVars, dbVars, proxyVars>>

NextIdentity ==
    \/ \E caPool \in Pools : CallValidateCertificate(caPool)
    \/ \E iss \in ExpectedIssuers : CallValidateIssuerMatch(iss)
    \/ \E iss \in ExpectedIssuers : CallExtractUserIdentity(iss)
    \/ \E i \in 1..MaxURIs, iss \in ExpectedIssuers : CallParseSPIFFEURI(i, iss)

SpecIdentity == InitIdentity /\ [][NextIdentity]_vars

(***************************************************************************)
(* SpecAuth: IsUserAuthorized applied to every table content in the bounds *)
(***************************************************************************)
AuthHostTables == [{KeyH} -> HostRows \cup {NoRow}]
AuthTeamTables == [TeamIDs -> {NoRow} \cup TeamRows]

InitAuth ==
    /\ hosts \in {h \in AuthHostTables :
                    h[KeyH] = NoRow \/ h[KeyH].InternalIPAddr = "b1"}
    /\ teams \in {t \in AuthTeamTables :
                    t["t2"] = NoRow \/ t["t2"].UserIDs = {"u1"}}
    /\ provCount = 0
    /\ authCall = NoCall
    /\ InitProxy
    /\ ToolsIdle

CallIsUserAuthorized(userID, orgID, connectID) ==
    /\ authCall = NoCall
    /\ authCall' = [userID |-> userID, orgID |-> orgID, connectID |-> connectID,
                    result |-> IsUserAuthorized(hosts, teams, userID, orgID,
                                                connectID)]
    /\ UNCHANGED <<toolVars, dbVars, proxyVars>>

NextAuth ==
    \E u \in Users, o \in Orgs, c \in ConnectIDs : CallIsUserAuthorized(u, o, c)

SpecAuth == InitAuth /\ [][NextAuth]_vars

(***************************************************************************)
(* The HTTP router of the package (NewHTTPRouter, determinePort,           *)
(* extractPathFromRequestLine), as its tests call it.  Request lines and   *)
(* paths are sequences of tokens: a method, a space, "/" and the segments  *)
(* of the target, "?" and the query, the version, CR and LF.               *)
(***************************************************************************)
MutagenPort == "MutagenPort"
DockerPort == "DockerPort"
SP == " "
Whitespace == {SP, CR, LF}
HostExecPrefix == <<"/", "tinyscale", "/", "v1", "/", "host-exec", "/">>

\* strings.HasPrefix(s, prefix)
HasPrefix(s, prefix) ==
    Len(prefix) <= Len(s) /\ SubSeq(s, 1, Len(prefix)) = prefix

\* a router that sends the exact run path only to the host-exec port
determinePortRunOnly(path) ==
    IF path = HostExecPrefix \o <<"run">> THEN MutagenPort ELSE DockerPort

determinePort(path) ==
    IF HasPrefix(path, HostExecPrefix) THEN MutagenPort ELSE DockerPort

\* strings.Fields: the maximal runs of tokens that are not white space
RECURSIVE FieldsFrom(_, _)
FieldsFrom(s, cur) ==
    IF s = <<>> THEN (IF cur = <<>> THEN <<>> ELSE <<cur>>)
    ELSE IF Head(s) \in Whitespace
         THEN (IF cur = <<>> THEN <<>> ELSE <<cur>>) \o FieldsFrom(Tail(s), <<>>)
         ELSE FieldsFrom(Tail(s), Append(cur, Head(s)))

Fields(s) == FieldsFrom(s, <<>>)

\* the part of a request target before its first "?"
RECURSIVE CutQuery(_)
CutQuery(target) ==
    IF target = <<>> \/ Head(target) = "?" THEN <<>>
    ELSE <<Head(target)>> \o CutQuery(Tail(target))

ErrRequestLine == <<"invalid request line">>

\* an extraction that keeps the query string
extractPathKeepsQuery(requestLine) ==
    LET parts == Fields(requestLine)
    IN  IF Len(parts) < 2 THEN [path |-> <<>>, err |-> ErrRequestLine]
        ELSE [path |-> parts[2], err |-> NoErr]

extractPathFromRequestLine(requestLine) ==
    LET parts == Fields(requestLine)
    IN  IF Len(parts) < 2 THEN [path |-> <<>>, err |-> ErrRequestLine]
        ELSE [path |-> CutQuery(parts[2]), err |-> NoErr]

\* the tables of TestHTTPRouter_DeterminePort and TestExtractPathFromRequestLine
PathOf(segs) == IF segs = <<>> THEN <<"/">>
                ELSE Flatten([i \in DOMAIN segs |-> <<"/", segs[i]>>])

DeterminePortTests ==
    { [path |-> PathOf(<<"tinyscale", "v1", "host-exec", "run">>), want |-> MutagenPort],
      [path |-> PathOf(<<"tinyscale", "v1", "host-exec", "sessions">>), want |-> MutagenPort],
      [path |-> PathOf(<<"v1", "containers", "json">>), want |-> DockerPort],
      [path |-> PathOf(<<"v1", "images", "json">>), want |-> DockerPort],
      [path |-> PathOf(<<"v1", "info">>), want |-> DockerPort],
      [path |-> PathOf(<<"v1", "version">>), want |-> DockerPort],
      [path |-> PathOf(<<"unknown", "path">>), want |-> DockerPort],
      [path |-> PathOf(<<>>), want |-> DockerPort] }

HTTP11 == <<SP, "HTTP/1.1">>

ExtractPathTests ==
    { [requestLine |-> <<"GET", SP>> \o PathOf(<<"v1", "containers", "json">>) \o HTTP11,
       want |-> PathOf(<<"v1", "containers", "json">>), wantErr |-> FALSE],
      [requestLine |-> <<"POST", SP>> \o PathOf(<<"tinyscale", "v1", "host-exec", "run">>) \o HTTP11,
       want |-> PathOf(<<"tinyscale", "v1", "host-exec", "run">>), wantErr |-> FALSE],
      [requestLine |-> <<"GET", SP>> \o PathOf(<<"v1", "images", "json">>) \o <<"?", "all=1">> \o HTTP11,
       want |-> PathOf(<<"v1", "images", "json">>), wantErr |-> FALSE],
      [requestLine |-> <<"GET", SP>> \o PathOf(<<"v1", "info">>) \o HTTP11 \o <<CR, LF>>,
       want |-> PathOf(<<"v1", "info">>), wantErr |-> FALSE],
      [requestLine |-> <<"INVALID">>, want |-> <<>>, wantErr |-> TRUE] }

(***************************************************************************)
(* SpecRouter: determinePort and extractPathFromRequestLine applied to the *)
(* paths and request lines in the bounds                                   *)
(***************************************************************************)
MaxSegs == 4
RouterSegs == {"tinyscale", "v1", "host-exec", "run", "info"}
SegLists == UNION {[1..n -> RouterSegs] : n \in 0..MaxSegs}
RouterPaths ==
    {PathOf(s) : s \in SegLists} \cup {PathOf(s) \o <<"/">> : s \in SegLists \ {<<>>}}
       \cup {t.path : t \in DeterminePortTests}
Methods == {"GET", "POST"}
Targets == {p \in RouterPaths : Len(p) <= 4} \cup {t.path : t \in DeterminePortTests}
Queries == {<<>>, <<"?">>, <<"?", "all=1">>, <<"?", "a", "?", "b">>}
Versions == {<<>>, HTTP11}
LineEnds == {<<>>, <<LF>>, <<CR, LF>>}
NoTargetLines ==
    {<<>>, <<"INVALID">>, <<"GET">>, <<"GET", SP>>, <<"GET", CR, LF>>, <<SP>>, <<CR, LF>>}

InitRouter == Init

CallDeterminePort(path) ==
    /\ authCall = NoCall
    /\ authCall' = [fn |-> "determinePort", path |-> path,
                    port |-> determinePort(path)]
    /\ UNCHANGED <<toolVars, dbVars, proxyVars>>

\* the request line is written from its parts, then the path is extracted
CallExtractPath(method, target, query, version, lineEnd) ==
    /\ authCall = NoCall
    /\ LET requestLine == <<method, SP>> \o target \o query \o version \o lineEnd
       IN  authCall' = [fn |-> "extractPathFromRequestLine",
                        requestLine |-> requestLine, target |-> target,
                        result |-> extractPathFromRequestLine(requestLine)]
    /\ UNCHANGED <<toolVars, dbVars, proxyVars>>

CallExtractPathNoTarget(requestLine) ==
    /\ authCall = NoCall
    /\ authCall' = [fn |-> "extractPathFromRequestLine",
                    requestLine |-> requestLine, target |-> <<>>,
                    result |-> extractPathFromRequestLine(requestLine)]
    /\ UNCHANGED <<toolVars, dbVars, proxyVars>>

NextRouter ==
    \/ \E path \in RouterPaths : CallDeterminePort(path)
    \/ \E m \in Methods, t \in Targets, q \in Queries, v \in Versions,
          e \in LineEnds : CallExtractPath(m, t, q, v, e)
    \/ \E line \in NoTargetLines : CallExtractPathNoTarget(line)

SpecRouter == InitRouter /\ [][NextRouter]_vars

(***************************************************************************)
(* tcp_proxy.go: the transparent TCPProxy.  ListenAndServe and Close run   *)
(* on goroutines of the caller; each accepted connection has a handler and *)
(* two copy goroutines.  p.listener is written by ListenAndServe and read  *)
(* by Close with nothing ordering the two: the read may see nil or the     *)
(* stored listener.                                                        *)
(***************************************************************************)
NTcpConn == 2
TcpConns == 1..NTcpConn
TcpErrChCap == 2

\* a connection no client has made yet
NewTcpConn ==
    [pc |-> "none",           \* handleConnection: none, dial, wait, returned
     clientClosed |-> FALSE,  \* clientConn.Close() has run
     remoteClosed |-> FALSE,  \* remoteConn.Close() has run
     dialed |-> FALSE,        \* DialRemoteDocker returned a connection
     clientEOF |-> FALSE,     \* the client has closed its end
     remoteEOF |-> FALSE,     \* the remote has closed its end
     c2r |-> "idle",          \* goroutine io.Copy(remoteConn, clientConn)
     r2c |-> "idle",          \* goroutine io.Copy(clientConn, remoteConn)
     errCh |-> <<>>]          \* make(chan error, 2)

\* NewTCPProxy, before ListenAndServe and Close are called
NewTCPProxy ==
    [stopCh |-> FALSE,        \* p.stopCh is closed
     listener |-> "nil",      \* p.listener: nil or set
     socket |-> "none",       \* the listening socket: none, open, closed
     lsPc |-> "listen",       \* ListenAndServe: listen, store, select, accept,
                              \* spawn, returned
     lsRet |-> "none",        \* what ListenAndServe returned: none, nil, err
     pending |-> 0,           \* the connection Accept returned
     closePc |-> "idle",      \* Close: idle, listener, wait, ssh, returned
     wg |-> 0,                \* p.wg
     sshClosed |-> FALSE,     \* p.sshClient.Close() has run
     h |-> [i \in TcpConns |-> NewTcpConn]]

TcpFrame == UNCHANGED <<dbVars, authCall, proxyVars, poll, daemon, connect>>

\* net.Listen
LSListen ==
    /\ tcpProxy.lsPc = "listen"
    /\ \/ tcpProxy' = [tcpProxy EXCEPT !.socket = "open", !.lsPc = "store"]
       \/ tcpProxy' = [tcpProxy EXCEPT !.lsPc = "returned", !.lsRet = "err"]
    /\ TcpFrame

\* p.listener = listener
LSStore ==
    /\ tcpProxy.lsPc = "store"
    /\ tcpProxy' = [tcpProxy EXCEPT !.listener = "set", !.lsPc = "select"]
    /\ TcpFrame

\* select { case <-p.stopCh: return nil; default: }
LSSelect ==
    /\ tcpProxy.lsPc = "select"
    /\ tcpProxy' = IF tcpProxy.stopCh
                   THEN [tcpProxy EXCEPT !.lsPc = "returned", !.lsRet = "nil"]
                   ELSE [tcpProxy EXCEPT !.lsPc = "accept"]
    /\ TcpFrame

\* p.listener.Accept() returns a connection
LSAccept(i) ==
    /\ tcpProxy.lsPc = "accept"
    /\ tcpProxy.socket = "open"
    /\ tcpProxy.h[i].pc = "none"
    /\ \A j \in TcpConns : j < i => tcpProxy.h[j].pc # "none"
    /\ tcpProxy' = [tcpProxy EXCEPT !.pending = i, !.lsPc = "spawn"]
    /\ TcpFrame

\* p.listener.Accept() returns an error: return nil when stopCh is closed,
\* log and continue otherwise
LSAcceptError ==
    /\ tcpProxy.lsPc = "accept"
    /\ tcpProxy' = IF tcpProxy.stopCh
                   THEN [tcpProxy EXCEPT !.lsPc = "returned", !.lsRet = "nil"]
                   ELSE [tcpProxy EXCEPT !.lsPc = "select"]
    /\ TcpFrame

\* p.wg.Add(1); go p.handleConnection(clientConn)
LSSpawn ==
    /\ tcpProxy.lsPc = "spawn"
    /\ tcpProxy' = [tcpProxy EXCEPT !.wg = @ + 1,
                                    !.h[tcpProxy.pending].pc = "dial",
                                    !.lsPc = "select"]
    /\ TcpFrame

\* the deferred calls of handleConnection: remoteConn.Close() when dialed,
\* clientConn.Close(), p.wg.Done()
TcpReturned(hc) ==
    [hc EXCEPT !.pc = "returned", !.clientClosed = TRUE,
               !.remoteClosed = hc.dialed]

\* p.sshClient.DialRemoteDocker(): an error, or a connection and the start of
\* the two copy goroutines
TcpDial(i) ==
    LET hc == tcpProxy.h[i]
    IN  /\ hc.pc = "dial"
        /\ \/ tcpProxy' = [tcpProxy EXCEPT !.h[i] = TcpReturned(hc),
                                           !.wg = @ - 1]
           \/ /\ ~tcpProxy.sshClosed
              /\ tcpProxy' = [tcpProxy EXCEPT
                    !.h[i] = [hc EXCEPT !.dialed = TRUE, !.c2r = "run",
                                        !.r2c = "run", !.pc = "wait"]]
        /\ TcpFrame

\* io.Copy(remoteConn, clientConn) ends, on an end of stream, a peer that is
\* gone or a closed socket, and errCh <- err
TcpCopyClientToRemote(i) ==
    LET hc == tcpProxy.h[i]
    IN  /\ hc.c2r = "run"
        /\ hc.clientEOF \/ hc.remoteEOF \/ hc.clientClosed \/ hc.remoteClosed
        /\ Len(hc.errCh) < TcpErrChCap
        /\ tcpProxy' = [tcpProxy EXCEPT
              !.h[i] = [hc EXCEPT !.c2r = "done",
                                  !.errCh = Append(@, "c2r")]]
        /\ TcpFrame

\* io.Copy(clientConn, remoteConn) ends, and errCh <- err
TcpCopyRemoteToClient(i) ==
    LET hc == tcpProxy.h[i]
    IN  /\ hc.r2c = "run"
        /\ hc.clientEOF \/ hc.remoteEOF \/ hc.clientClosed \/ hc.remoteClosed
        /\ Len(hc.errCh) < TcpErrChCap
        /\ tcpProxy' = [tcpProxy EXCEPT
              !.h[i] = [hc EXCEPT !.r2c = "done",
                                  !.errCh = Append(@, "r2c")]]
        /\ TcpFrame

\* a handler that returns without closing the two connections
TcpFirstDoneNoClose(i) ==
    LET hc == tcpProxy.h[i]
    IN  /\ hc.pc = "wait"
        /\ hc.errCh # <<>>
        /\ tcpProxy' = [tcpProxy EXCEPT
              !.h[i] = [hc EXCEPT !.errCh = Tail(@), !.pc = "returned"],
              !.wg = @ - 1]
        /\ TcpFrame

\* err = <-errCh, and the return of handleConnection
TcpFirstDone(i) ==
    LET hc == tcpProxy.h[i]
    IN  /\ hc.pc = "wait"
        /\ hc.errCh # <<>>
        /\ tcpProxy' = [tcpProxy EXCEPT
              !.h[i] = TcpReturned([hc EXCEPT !.errCh = Tail(@)]),
              !.wg = @ - 1]
        /\ TcpFrame

\* the client, or the remote, closes its end of a spliced connection
TcpPeerClose(i) ==
    LET hc == tcpProxy.h[i]
    IN  /\ hc.pc = "wait"
        /\ \/ ~hc.clientEOF /\ tcpProxy' = [tcpProxy EXCEPT !.h[i].clientEOF = TRUE]
           \/ ~hc.remoteEOF /\ tcpProxy' = [tcpProxy EXCEPT !.h[i].remoteEOF = TRUE]
        /\ TcpFrame

\* close(p.stopCh)
TcpCloseStopCh ==
    /\ tcpProxy.closePc = "idle"
    /\ tcpProxy' = [tcpProxy EXCEPT !.stopCh = TRUE, !.closePc = "listener"]
    /\ TcpFrame

\* if p.listener != nil { p.listener.Close() }: the unordered read of
\* p.listener sees nil, or the listener once it is stored
TcpCloseListener ==
    /\ tcpProxy.closePc = "listener"
    /\ \/ tcpProxy' = [tcpProxy EXCEPT !.closePc = "wait"]
       \/ /\ tcpProxy.listener = "set"
          /\ tcpProxy' = [tcpProxy EXCEPT !.socket = "closed",
                                          !.closePc = "wait"]
    /\ TcpFrame

\* p.wg.Wait()
TcpCloseWait ==
    /\ tcpProxy.closePc = "wait"
    /\ tcpProxy.wg = 0
    /\ tcpProxy' = [tcpProxy EXCEPT !.closePc = "ssh"]
    /\ TcpFrame

\* return p.sshClient.Close()
TcpCloseSSH ==
    /\ tcpProxy.closePc = "ssh"
    /\ tcpProxy' = [tcpProxy EXCEPT !.sshClosed = TRUE, !.closePc = "returned"]
    /\ TcpFrame

InitTCP ==
    /\ hosts = InitHosts
    /\ teams = InitTeams
    /\ provCount = 0
    /\ authCall = NoCall
    /\ InitProxy
    /\ tcpProxy = NewTCPProxy
    /\ poll = NotRunning
    /\ daemon = NotRunning
    /\ connect = NotRunning

NextTCP ==
    \/ LSListen
    \/ LSStore
    \/ LSSelect
    \/ \E i \in TcpConns : LSAccept(i)
    \/ LSAcceptError
    \/ LSSpawn
    \/ \E i \in TcpConns : TcpDial(i)
    \/ \E i \in TcpConns : TcpCopyClientToRemote(i)
    \/ \E i \in TcpConns : TcpCopyRemoteToClient(i)
    \/ \E i \in TcpConns : TcpFirstDone(i)
    \/ \E i \in TcpConns : TcpPeerClose(i)
    \/ TcpCloseStopCh
    \/ TcpCloseListener
    \/ TcpCloseWait
    \/ TcpCloseSSH

SpecTCP == InitTCP /\ [][NextTCP]_vars

\* SpecTCP, and the goroutines of a connection are scheduled: a copy whose
\* io.Copy can end sends its result, a handler with a result returns
SpecTCPLive ==
    /\ SpecTCP
    /\ \A i \in TcpConns : /\ WF_vars(TcpCopyClientToRemote(i))
                           /\ WF_vars(TcpCopyRemoteToClient(i))
                           /\ WF_vars(TcpFirstDone(i))

(***************************************************************************)
(* oauth.go: PollForToken, the device-code polling loop.  Time is counted  *)
(* in seconds from the call; a token request takes between 0 and           *)
(* MaxLatency seconds and time.Sleep(d) returns after d to d + MaxOversleep*)
(* seconds.                                                                *)
(***************************************************************************)
MaxLatency == 2
MaxOversleep == 1
MinPollInterval == 5
PollIntervals == {1, 5, 6}
PollExpiresIn == {0, 11, 13}

\* what the token endpoint, or the transport, answers to one token request
TokenAnswers ==
    {"token", "authorization_pending", "slow_down", "access_denied",
     "expired_token", "invalid_grant", "unparsable", "badtoken", "transport"}

\* requestToken: (token, shouldRetry, error) for one answer
requestToken(answer) ==
    CASE answer = "transport" ->
           [token |-> FALSE, shouldRetry |-> FALSE,
            err |-> "unable to send token request"]
      [] answer = "token" ->
           [token |-> TRUE, shouldRetry |-> FALSE, err |-> "nil"]
      [] answer = "badtoken" ->
           [token |-> FALSE, shouldRetry |-> FALSE,
            err |-> "unable to parse token response"]
      [] answer = "unparsable" ->
           [token |-> FALSE, shouldRetry |-> FALSE,
            err |-> "token request failed with status"]
      [] answer = "authorization_pending" ->
           [token |-> FALSE, shouldRetry |-> TRUE, err |-> "nil"]
      [] answer = "slow_down" ->
           [token |-> FALSE, shouldRetry |-> TRUE, err |-> "nil"]
      [] answer = "access_denied" ->
           [token |-> FALSE, shouldRetry |-> FALSE,
            err |-> "authorization denied by user"]
      [] answer = "expired_token" ->
           [token |-> FALSE, shouldRetry |-> FALSE,
            err |-> "device code expired"]
      [] OTHER ->
           [token |-> FALSE, shouldRetry |-> FALSE,
            err |-> "token request failed"]

\* a poll interval that is not raised to the five-second floor
PollIntervalNoFloor(interval) == interval

\* pollInterval := interval seconds, at least 5 seconds
PollIntervalOf(interval) ==
    IF interval < MinPollInterval THEN MinPollInterval ELSE interval

\* PollForToken(deviceCode, interval, expiresIn) at its loop condition
NewPoll(interval, expiresIn) ==
    [pc |-> "check",             \* check, await, sleep, returned
     now |-> 0,                  \* time.Now(), seconds since the call
     interval |-> interval,
     pollInterval |-> PollIntervalOf(interval),
     deadline |-> expiresIn,
     reqAt |-> -1,               \* when the last token request was issued
     prevReqAt |-> -1,           \* when the one before it was issued
     answer |-> "none",          \* the answer to the last token request
     token |-> FALSE,            \* PollForToken returned a token
     err |-> "none"]             \* the error PollForToken returned

PollFrame == UNCHANGED <<dbVars, authCall, proxyVars, tcpProxy, daemon, connect>>

\* for time.Now().Before(deadline) { c.requestToken(...): the request is sent
PollRequest ==
    /\ poll.pc = "check"
    /\ poll.now < poll.deadline
    /\ poll' = [poll EXCEPT !.pc = "await", !.reqAt = poll.now,
                            !.prevReqAt = poll.reqAt]
    /\ PollFrame

\* the loop condition fails: return nil, "device authorization expired"
PollExpired ==
    /\ poll.pc = "check"
    /\ ~(poll.now < poll.deadline)
    /\ poll' = [poll EXCEPT !.pc = "returned",
                            !.err = "device authorization expired"]
    /\ PollFrame

\* requestToken returns, and the three tests on its results
PollAnswer(answer, latency) ==
    LET r == requestToken(answer)
        p == [poll EXCEPT !.now = @ + latency, !.answer = answer]
    IN  /\ poll.pc = "await"
        /\ poll' = IF r.err # "nil"
                     THEN [p EXCEPT !.pc = "returned", !.err = r.err]
                   ELSE IF r.token
                     THEN [p EXCEPT !.pc = "returned", !.token = TRUE,
                                    !.err = "nil"]
                   ELSE IF ~r.shouldRetry
                     THEN [p EXCEPT !.pc = "returned",
                                    !.err = "authorization was denied"]
                   ELSE [p EXCEPT !.pc = "sleep"]
        /\ PollFrame

\* time.Sleep(pollInterval)
PollSleep(over) ==
    /\ poll.pc = "sleep"
    /\ poll' = [poll EXCEPT !.now = @ + poll.pollInterval + over,
                            !.pc = "check"]
    /\ PollFrame

InitPoll ==
    /\ hosts = InitHosts
    /\ teams = InitTeams
    /\ provCount = 0
    /\ authCall = NoCall
    /\ InitProxy
    /\ tcpProxy = NotRunning
    /\ \E interval \in PollIntervals, expiresIn \in PollExpiresIn :
          poll = NewPoll(interval, expiresIn)
    /\ daemon = NotRunning
    /\ connect = NotRunning

NextPoll ==
    \/ PollRequest
    \/ PollExpired
    \/ \E answer \in TokenAnswers, latency \in 0..MaxLatency :
          PollAnswer(answer, latency)
    \/ \E over \in 0..MaxOversleep : PollSleep(over)

SpecPoll == InitPoll /\ [][NextPoll]_vars

\* SpecPoll, and PollForToken runs: the HTTP client answers or times out,
\* the sleep ends, the loop condition is evaluated
SpecPollLive ==
    /\ SpecPoll
    /\ WF_vars(NextPoll)

(***************************************************************************)
(* start.go and daemon.go: the daemon's stop protocol.  The stop command   *)
(* copies the pid file to the terminate file; the daemon's watcher         *)
(* goroutine reads the terminate file on every create or write event of    *)
(* it; the daemon's command waits in a select for a signal, the file       *)
(* termination or the end of the proxy's ListenAndServe.                   *)
(***************************************************************************)
DaemonPid == 7
MaxOtherWrites == 1
MaxSignals == 1
DecDigits == <<"0", "1", "2", "3", "4", "5", "6", "7", "8", "9">>

IsDigit(c) == \E i \in 1..10 : DecDigits[i] = c

DigitVal(c) == (CHOOSE i \in 1..10 : DecDigits[i] = c) - 1

RECURSIVE DecVal(_)
DecVal(s) ==
    IF s = <<>> THEN 0
    ELSE 10 * DecVal(SubSeq(s, 1, Len(s) - 1)) + DigitVal(s[Len(s)])

\* strconv.Atoi: an optional sign and decimal digits, nothing else
Atoi(s) ==
    LET signed == s # <<>> /\ s[1] \in {"+", "-"}
        digits == IF signed THEN Tail(s) ELSE s
    IN  IF digits = <<>> \/ \E i \in 1..Len(digits) : ~IsDigit(digits[i])
          THEN [ok |-> FALSE, val |-> 0]
        ELSE [ok |-> TRUE,
              val |-> IF signed /\ s[1] = "-" THEN 0 - DecVal(digits)
                      ELSE DecVal(digits)]

\* what the pid file holds when the stop command runs
PidFileTexts ==
    {<<"7">>, <<"0", "7">>, <<"7", LF>>, <<"8">>, <<"x">>, <<>>}

\* what another process writes to the terminate file
OtherTexts == {<<"8">>, <<"7", LF>>, <<"x">>, <<>>}

\* the terminate-file test of the watcher goroutine without the PID comparison
TerminatesAnyPid(content) == Atoi(content).ok

\* pid, err := strconv.Atoi(contentStr); err == nil && pid == currentPid
Terminates(content) ==
    /\ Atoi(content).ok
    /\ Atoi(content).val = DaemonPid

\* the daemon waiting in its select, the stop command not yet run
NewDaemon(pidText) ==
    [pidFile |-> pidText,
     termExists |-> FALSE,      \* the terminate file exists
     termContent |-> <<>>,      \* its content
     events |-> <<>>,           \* watcher.Events for the terminate file
     watcherPc |-> "run",       \* the watcher goroutine: run, returned
     fileTermination |-> 0,     \* chan bool, capacity 1
     readOwn |-> FALSE,         \* the watcher read its own PID
     signals |-> 0,             \* signalTermination
     signalled |-> 0,           \* signals delivered so far
     errCh |-> 0,               \* errCh <- proxy.ListenAndServe()
     serverReturned |-> FALSE,
     mainPc |-> "select",       \* RunE of start: select, exited
     result |-> "none",         \* nil, signal, server
     proxyClosed |-> FALSE,     \* proxy.Close() has run
     stopPc |-> "idle",         \* RunE of stop: idle, create, write, returned
     stopErr |-> "none",
     otherWrites |-> 0]

DaemonFrame ==
    UNCHANGED <<dbVars, authCall, proxyVars, tcpProxy, poll, connect>>

\* stop: read the pid file, strconv.Atoi(pidStr)
StopReadPid ==
    /\ daemon.stopPc = "idle"
    /\ daemon' = IF Atoi(daemon.pidFile).ok
                   THEN [daemon EXCEPT !.stopPc = "create"]
                 ELSE [daemon EXCEPT !.stopPc = "returned",
                                     !.stopErr = "invalid pid"]
    /\ DaemonFrame

\* stop: os.WriteFile opens the terminate file with O_CREATE|O_TRUNC
StopCreate ==
    /\ daemon.stopPc = "create"
    /\ daemon' = [daemon EXCEPT
          !.termExists = TRUE,
          !.termContent = <<>>,
          !.events = Append(@, IF daemon.termExists THEN "write" ELSE "create"),
          !.stopPc = "write"]
    /\ DaemonFrame

\* stop: os.WriteFile writes pidStr, and the command returns nil
StopWrite ==
    /\ daemon.stopPc = "write"
    /\ daemon' = [daemon EXCEPT
          !.termExists = TRUE,
          !.termContent = daemon.pidFile,
          !.events = Append(@, IF daemon.termExists THEN "write" ELSE "create"),
          !.stopPc = "returned",
          !.stopErr = "nil"]
    /\ DaemonFrame

\* another process writes the terminate file before the stop command runs
OtherWrite(text) ==
    /\ daemon.stopPc = "idle"
    /\ daemon.otherWrites < MaxOtherWrites
    /\ daemon' = [daemon EXCEPT
          !.termExists = TRUE,
          !.termContent = text,
          !.events = Append(@, IF daemon.termExists THEN "write" ELSE "create"),
          !.otherWrites = @ + 1]
    /\ DaemonFrame

\* the watcher goroutine takes one event of the terminate file, reads the file
\* and compares its content with os.Getpid()
WatcherEvent ==
    /\ daemon.mainPc # "exited"
    /\ daemon.watcherPc = "run"
    /\ daemon.events # <<>>
    /\ daemon' = IF daemon.termExists /\ Terminates(daemon.termContent)
                   THEN [daemon EXCEPT !.events = Tail(@),
                                       !.termExists = FALSE,
                                       !.termContent = <<>>,
                                       !.fileTermination = @ + 1,
                                       !.readOwn = TRUE,
                                       !.watcherPc = "returned"]
                 ELSE [daemon EXCEPT !.events = Tail(@)]
    /\ DaemonFrame

\* SIGINT or SIGTERM is delivered to the daemon
DaemonSignal ==
    /\ daemon.mainPc # "exited"
    /\ daemon.signalled < MaxSignals
    /\ daemon' = [daemon EXCEPT !.signals = @ + 1, !.signalled = @ + 1]
    /\ DaemonFrame

\* proxy.ListenAndServe() returns: errCh <- its result
DaemonServerReturns ==
    /\ daemon.mainPc # "exited"
    /\ ~daemon.serverReturned
    /\ daemon' = [daemon EXCEPT !.errCh = 1, !.serverReturned = TRUE]
    /\ DaemonFrame

\* case s := <-signalTermination: proxy.Close(); return an error
SelectSignal ==
    /\ daemon.mainPc = "select"
    /\ daemon.signals > 0
    /\ daemon' = [daemon EXCEPT !.signals = @ - 1, !.proxyClosed = TRUE,
                                !.mainPc = "exited", !.result = "signal"]
    /\ DaemonFrame

\* case <-fileTermination: proxy.Close(); return nil
SelectFile ==
    /\ daemon.mainPc = "select"
    /\ daemon.fileTermination > 0
    /\ daemon' = [daemon EXCEPT !.fileTermination = @ - 1,
                                !.proxyClosed = TRUE,
                                !.mainPc = "exited", !.result = "nil"]
    /\ DaemonFrame

\* case err = <-errCh: return an error
SelectServer ==
    /\ daemon.mainPc = "select"
    /\ daemon.errCh > 0
    /\ daemon' = [daemon EXCEPT !.errCh = 0, !.mainPc = "exited",
                                !.result = "server"]
    /\ DaemonFrame

InitDaemon ==
    /\ hosts = InitHosts
    /\ teams = InitTeams
    /\ provCount = 0
    /\ authCall = NoCall
    /\ InitProxy
    /\ tcpProxy = NotRunning
    /\ poll = NotRunning
    /\ \E pidText \in PidFileTexts : daemon = NewDaemon(pidText)
    /\ connect = NotRunning

NextDaemon ==
    \/ StopReadPid
    \/ StopCreate
    \/ StopWrite
    \/ \E text \in OtherTexts : OtherWrite(text)
    \/ WatcherEvent
    \/ DaemonSignal
    \/ DaemonServerReturns
    \/ SelectSignal
    \/ SelectFile
    \/ SelectServer

SpecDaemon == InitDaemon /\ [][NextDaemon]_vars

\* SpecDaemon, and the stop command, the watcher goroutine and the select of
\* the daemon's command run when they can
SpecDaemonLive ==
    /\ SpecDaemon
    /\ WF_vars(StopReadPid \/ StopCreate \/ StopWrite)
    /\ WF_vars(WatcherEvent)
    /\ WF_vars(SelectSignal \/ SelectFile \/ SelectServer)

(***************************************************************************)
(* The protocol handlers' Connect (sync_protocol.go, forwarding_protocol.go*)
(* and synchronization-protocol/protocol.go): dialing the agent in a       *)
(* background goroutine that hands its result over the unbuffered channel  *)
(* results.  Each handler is modelled from the start of the goroutine, the *)
(* transport being created.  A select that finds no case ready parks; a    *)
(* parked select is resumed by exactly one case: by the other side of      *)
(* results arriving at its select, or by the close of ctx.Done().          *)
(***************************************************************************)
ProtocolHandlers == {"sync", "forwarding", "tssync"}

\* Connect after `go func()`: the goroutine dials, Connect reaches its select
NewConnect ==
    [ctxDone |-> FALSE,      \* ctx.Done() is closed
     mainPc |-> "select",    \* Connect: select, parked, woken, got, returned
     goPc |-> "dial",        \* goroutine: dial, select, parked, woken, returned
     stream |-> "none",      \* the dialed stream: none, open, closed
     dialErr |-> FALSE,      \* agent.Dial returned an error
     consumed |-> "none",    \* ctx at the receive from results: live, cancelled
     handed |-> 0,           \* endpoints the stream was given to
     result |-> "none"]      \* endpoint, dial error, canceled

ConnectFrame ==
    UNCHANGED <<dbVars, authCall, proxyVars, tcpProxy, poll, daemon>>

\* agent.Dial returns a stream, or an error and no stream
ConnDial(h) ==
    /\ connect[h].goPc = "dial"
    /\ \/ connect' = [connect EXCEPT ![h].goPc = "select",
                                     ![h].stream = "open"]
       \/ connect' = [connect EXCEPT ![h].goPc = "select",
                                     ![h].dialErr = TRUE]
    /\ ConnectFrame

\* a cancellation case that returns without closing the stream
CloseIfDialedNoClose(c) ==
    [c EXCEPT !.goPc = "returned"]

\* stream.Close() of the goroutine's cancellation case, when stream != nil
CloseIfDialed(c) ==
    [c EXCEPT !.goPc = "returned",
              !.stream = IF c.stream = "open" THEN "closed" ELSE c.stream]

\* the goroutine's select: the send on results to a parked Connect, the
\* cancellation case, or parking
ConnGoSelect(h) ==
    LET c == connect[h]
    IN  /\ c.goPc = "select"
        /\ connect' = [connect EXCEPT ![h] =
              IF c.mainPc = "parked"
                THEN [c EXCEPT !.goPc = "returned", !.mainPc = "got",
                               !.consumed = IF c.ctxDone THEN "cancelled"
                                            ELSE "live"]
              ELSE IF c.ctxDone THEN CloseIfDialed(c)
              ELSE [c EXCEPT !.goPc = "parked"]]
        /\ ConnectFrame

\* Connect's select: the receive from a parked goroutine, the cancellation
\* case (return nil, context.Canceled), or parking
ConnMainSelect(h) ==
    LET c == connect[h]
    IN  /\ c.mainPc = "select"
        /\ connect' = [connect EXCEPT ![h] =
              IF c.goPc = "parked"
                THEN [c EXCEPT !.goPc = "returned", !.mainPc = "got",
                               !.consumed = IF c.ctxDone THEN "cancelled"
                                            ELSE "live"]
              ELSE IF c.ctxDone
                THEN [c EXCEPT !.mainPc = "returned", !.result = "canceled"]
              ELSE [c EXCEPT !.mainPc = "parked"]]
        /\ ConnectFrame

\* case result := <-results: the dial error, or remote.NewEndpoint(stream)
ConnMainResult(h) ==
    LET c == connect[h]
    IN  /\ c.mainPc = "got"
        /\ connect' = [connect EXCEPT ![h] =
              IF c.dialErr
                THEN [c EXCEPT !.mainPc = "returned", !.result = "dial error"]
              ELSE [c EXCEPT !.mainPc = "returned", !.result = "endpoint",
                             !.handed = @ + 1]]
        /\ ConnectFrame

\* the context is cancelled: ctx.Done() is closed and resumes the selects
\* parked on it
ConnCancel(h) ==
    LET c == connect[h]
    IN  /\ ~c.ctxDone
        /\ connect' = [connect EXCEPT ![h] =
              [c EXCEPT !.ctxDone = TRUE,
                        !.mainPc = IF c.mainPc = "parked" THEN "woken"
                                   ELSE c.mainPc,
                        !.goPc = IF c.goPc = "parked" THEN "woken"
                                 ELSE c.goPc]]
        /\ ConnectFrame

\* case <-ctx.Done() of a parked Connect: return nil, context.Canceled
ConnMainCanceled(h) ==
    /\ connect[h].mainPc = "woken"
    /\ connect' = [connect EXCEPT ![h].mainPc = "returned",
                                  ![h].result = "canceled"]
    /\ ConnectFrame

\* case <-ctx.Done() of the parked goroutine
ConnGoCanceled(h) ==
    /\ connect[h].goPc = "woken"
    /\ connect' = [connect EXCEPT ![h] = CloseIfDialed(connect[h])]
    /\ ConnectFrame

InitConnect ==
    /\ hosts = InitHosts
    /\ teams = InitTeams
    /\ provCount = 0
    /\ authCall = NoCall
    /\ InitProxy
    /\ tcpProxy = NotRunning
    /\ poll = NotRunning
    /\ daemon = NotRunning
    /\ connect = [h \in ProtocolHandlers |-> NewConnect]

NextConnect ==
    \E h \in ProtocolHandlers :
        \/ ConnDial(h)
        \/ ConnGoSelect(h)
        \/ ConnMainSelect(h)
        \/ ConnMainResult(h)
        \/ ConnCancel(h)
        \/ ConnMainCanceled(h)
        \/ ConnGoCanceled(h)

SpecConnect == InitConnect /\ [][NextConnect]_vars

\* SpecConnect, and Connect and its goroutine run: agent.Dial returns, the
\* selects are evaluated and resumed
SpecConnectLive ==
    /\ SpecConnect
    /\ \A h \in ProtocolHandlers :
          /\ WF_vars(ConnDial(h) \/ ConnGoSelect(h) \/ ConnGoCanceled(h))
          /\ WF_vars(ConnMainSelect(h) \/ ConnMainResult(h)
                       \/ ConnMainCanceled(h))

(***************************************************************************)
(* The claims                                                              *)
(***************************************************************************)
Range(f) == {f[i] : i \in DOMAIN f}

\* the authorization predicate as the specification states it
GrantHolds(userID, orgID, connectID) ==
    LET host == hosts[connectID]
    IN  /\ host.OrgID = orgID
        /\ \/ userID \in host.UserIDs
           \/ \E t \in host.TeamIDs :
                /\ teams[t] # NoRow
                /\ teams[t].OrgID = orgID
                /\ userID \in teams[t].UserIDs

HostExists(connectID) == connectID \in DOMAIN hosts /\ hosts[connectID] # NoRow

\* C1: for every (userID, orgID, connectID) whose host exists, IsUserAuthorized
\* returns true exactly when the host is of the caller's organization and the
\* user is granted directly or through a team of that organization listed on
\* the host; in every other case it returns false, without an error.
C1_AuthorizedIff ==
    (authCall # NoCall /\ HostExists(authCall.connectID)) =>
        /\ authCall.result.err = NoErr
        /\ authCall.result.ok =
             GrantHolds(authCall.userID, authCall.orgID, authCall.connectID)

\* a call that is granted through a team while another organization's team
\* on the host also lists the user
C1_Witness ==
    /\ authCall # NoCall
    /\ HostExists(authCall.connectID)
    /\ authCall.result.ok
    /\ authCall.userID \notin hosts[authCall.connectID].UserIDs
    /\ \E t \in hosts[authCall.connectID].TeamIDs :
         /\ teams[t] # NoRow
         /\ teams[t].OrgID # authCall.orgID
         /\ authCall.userID \in teams[t].UserIDs

OKSent(r) == OKLine \in Range(r.toClient)

\* C2: no connection whose certificate identity has organization O is sent OK
\* for, or spliced to, a backend host whose org_id differs from O.
C2_OrgIsolation ==
    \A c \in Conns :
        conn[c].dialed # "none" => conn[c].rowOrg = conn[c].identity.OrgID

RECURSIVE FirstLF(_)
FirstLF(bytes) ==
    IF bytes = <<>> THEN 0
    ELSE IF Head(bytes) = LF THEN 1
    ELSE IF FirstLF(Tail(bytes)) = 0 THEN 0
    ELSE 1 + FirstLF(Tail(bytes))

KeyLineOf(script) ==
    LET b == Flatten(script)
        k == SubSeq(b, 1, FirstLF(b) - 1)
    IN  IF k # <<>> /\ k[Len(k)] = CR THEN SubSeq(k, 1, Len(k) - 1) ELSE k

DataOf(script) ==
    LET b == Flatten(script) IN SubSeq(b, FirstLF(b) + 1, Len(b))

IsPrefix(a, b) == Len(a) <= Len(b) /\ SubSeq(b, 1, Len(a)) = a

\* the last write to the client reports a failed database query
DbFailed(r) ==
    r.toClient # <<>> /\ "context canceled" \in Range(r.toClient[Len(r.toClient)])

\* C4: a client with a valid certificate that sends a key line for which it is
\* authorized, and whose backend accepts the dial, is answered OK, and from
\* then on the bytes of each side reach the other unmodified and in order.
C4_HappyPath ==
    \A c \in Conns :
        LET r == conn[c]
            key == KeyLineOf(r.script)
        IN  ( /\ r.pc \in {"splice", "wait2", "done"}
              /\ FirstLF(Flatten(r.script)) > 0
              /\ provCount = 0
              /\ HostExists(key)
              /\ GrantHolds(r.identity.UserID, r.identity.OrgID, key)
              /\ hosts[key].InternalIPAddr # ""
              /\ r.dialed # "err"
              /\ ~r.clientEOF
              /\ ~DbFailed(r) )
            => /\ r.toClient # <<>> /\ r.toClient[1] = OKLine
               /\ IsPrefix(r.toBackend, DataOf(r.script))
               /\ IsPrefix(Flatten(Tail(r.toClient)), Flatten(r.bscript))

\* the lines of a byte string: its pieces up to each line feed
RECURSIVE LinesFrom(_, _)
LinesFrom(bytes, cur) ==
    IF bytes = <<>> THEN (IF cur = <<>> THEN <<>> ELSE <<cur>>)
    ELSE IF Head(bytes) = LF THEN <<cur>> \o LinesFrom(Tail(bytes), <<>>)
    ELSE LinesFrom(Tail(bytes), Append(cur, Head(bytes)))

ErrorLinesOf(r) ==
    LET ls == LinesFrom(Flatten(r.toClient), <<>>)
    IN  {i \in DOMAIN ls : ls[i] # <<>> /\ ls[i][1] = "ERROR: "}

C6_NonDisclosure ==
    \A c \in Conns :
        LET r == conn[c]
        IN  (r.routed = "err" /\ r.queries = 1 /\ ~DbFailed(r)) =>
              r.toClient[1] = ErrorLine(Wrap("routing failed", NotAuthorized(r)))

\* C7: when the first client frame is just a line feed, or CR LF, the handler
\* returns without a database query, a dial or any write to the client, and
\* the connection is closed.
C7_EmptyKey ==
    \A c \in Conns :
        LET r == conn[c]
        IN  (r.script # <<>> /\ Head(r.script) \in {<<LF>>, <<CR, LF>>}) =>
              /\ r.pc = "done" /\ r.clientClosed
              /\ r.queries = 0
              /\ r.routed = "none" /\ r.dialed = "none"
              /\ r.toClient = <<>>

C7_Witness ==
    \E c \in Conns : conn[c].script # <<>> /\ Head(conn[c].script) = <<CR, LF>>

\* C8: when the dial of the backend fails after a successful authorization, the
\* server writes a single ERROR line to the client and closes the connection.
C8_DialFailureError ==
    \A c \in Conns :
        LET r == conn[c]
        IN  r.dialed = "err" =>
              /\ Len(r.toClient) = 1
              /\ r.toClient[1][1] = "ERROR: "
              /\ r.pc = "done" /\ r.clientClosed

\* C9: once the handler has received the first copy result both sockets are
\* closed; the handler returns only after the second result; when it has
\* returned no copy goroutine runs, both sockets are closed and the channel is
\* empty; a copy goroutine that has to send its result never finds it full.
C9_SpliceTeardown ==
    \A c \in Conns :
        LET r == conn[c]
        IN  /\ r.pc = "wait2" => r.clientClosed /\ r.backendClosed
            /\ r.pc = "done" =>
                 /\ r.c2b # "run" /\ r.b2c # "run"
                 /\ r.c2b = r.b2c
                 /\ r.errChan = <<>>
                 /\ r.clientClosed
                 /\ r.dialed = "ok" => r.backendClosed
            /\ (r.c2b = "run" \/ r.b2c = "run") => Len(r.errChan) < ErrChanCap

\* a handler that returned from a splice ended by the client's EOF
C9_Witness ==
    \E c \in Conns :
        /\ conn[c].pc = "done"
        /\ conn[c].c2b = "done" /\ conn[c].b2c = "done"

\* C10: Stop always returns: once called it reaches its return, also while a
\* spliced connection never closes.
C10_StopReturns == (stopPc # "idle") ~> (stopPc = "returned")

\* Stop has returned through the timeout while a connection is still spliced
C10_Witness ==
    /\ stopPc = "returned"
    /\ stopHow = "timeout"
    /\ \E c \in Conns : conn[c].pc = "splice"

\* a handler is started for a connection
Dispatched == \E c \in Conns : conn[c].pc # "start" /\ conn'[c].pc = "start"

\* C11: once Stop has cancelled the context and closed the listener, Accept
\* returns no further connection and the accept loop eventually returns; only
\* a connection Accept had returned before the listener was closed is still
\* dispatched; the loop returns on an Accept error only when the context is
\* cancelled.
C11_ShutdownStopsAccepting ==
    /\ [][ /\ listenerClosed => accepted' = accepted
           /\ (listenerClosed /\ Dispatched) => acceptPc = "spawn"
           /\ (acceptPc # "returned" /\ acceptPc' = "returned") => ctxDone
           /\ acceptPc = "returned" => (acceptPc' = "returned" /\ ~Dispatched)
        ]_vars
    /\ listenerClosed ~> (acceptPc = "returned")

\* the accept loop has returned while a connection is spliced
C11_Witness ==
    /\ ctxDone /\ listenerClosed
    /\ acceptPc = "returned"
    /\ \E c \in Conns : conn[c].pc = "splice"

\* C11 as stated: no connection is dispatched to a new handler once Stop has
\* cancelled the context and closed the listener.
C11_NoDispatchAfterClose ==
    [][(ctxDone /\ listenerClosed) => ~Dispatched]_vars

\* the sockets of connection c are open on the server's side
SocketsOpen(r) == ~r.clientClosed /\ ~r.backendClosed

\* C12: among simultaneously spliced connections every step of one handler,
\* client or backend changes that connection only; the server closes the
\* sockets of a connection only after that connection's own client or backend
\* has closed, and what each side of a connection receives is a prefix of what
\* its own peer wrote.
C12_ConcurrentIsolation ==
    /\ [][\A c \in DOMAIN conn :
            conn'[c] # conn[c] =>
                \A d \in DOMAIN conn \ {c} : conn'[d] = conn[d]]_vars
    /\ [](\A c \in DOMAIN conn :
            LET r == conn[c]
            IN  /\ ~SocketsOpen(r) => (r.clientEOF \/ r.backendEOF)
                /\ IsPrefix(r.toBackend, Flatten(ReadRest(r.script)))
                /\ IsPrefix(Flatten(Tail(r.toClient)), Flatten(r.bscript)))

\* one connection is torn down while another has its sockets open and has
\* delivered all the bytes of both of its peers
C12_Witness ==
    \E c, d \in DOMAIN conn :
        /\ c # d
        /\ conn[c].pc = "done" /\ conn[c].clientClosed /\ conn[c].backendClosed
        /\ conn[d].pc = "splice" /\ SocketsOpen(conn[d])
        /\ conn[d].toBackend = <<"d">>
        /\ conn[d].bscript # <<>>
        /\ Flatten(Tail(conn[d].toClient)) = Flatten(conn[d].bscript)

\* C13: a panic inside one connection's handler ends that connection only: the
\* accept loop is still there afterwards.
C13_PanicContained ==
    (\E c \in Conns : conn[c].pc = "crashed") => acceptPc # "crashed"

\* C14: whenever a handler has inspected the peer certificates of its
\* connection, the TLS handshake of that connection had been performed.
C14_HandshakeBeforeInspection ==
    \A c \in Conns :
        conn[c].pc \notin {"new", "accepted", "start"} => conn[c].hs

Called(fn) == authCall # NoCall /\ authCall.fn = fn

\* C15: ValidateCertificate succeeds for a clientAuth certificate exactly
\* when its chain resolves to at least one root of the configured pool.
C15_CARotation ==
    ( /\ Called("ValidateCertificate")
      /\ "clientAuth" \in authCall.cert.ExtKeyUsage
      /\ ~authCall.cert.Expired )
    => (authCall.ok <=> Range(authCall.cert.Chain) \cap authCall.caPool # {})

\* the ids a path of the model can hold
IdTokens == {"orgs", "org", "users", "user", "o1", "o2", "u1", "u2"}

\* the path is orgs/<org>/users/<user>, after the slash that follows the host
IsIdentityPath(path, org, user) ==
    path = <<"/", "orgs", "/", org, "/", "users", "/", user>>

\* C16: for a spiffe URI whose host is the expected issuer, parseSPIFFEURI
\* succeeds exactly when the path is orgs/<org>/users/<user> with non-empty
\* ids, and then returns that user, that org and the expected issuer; every
\* identity that is returned has non-empty ids and the expected issuer.
C16_IdentityParsing ==
    /\ ( /\ Called("parseSPIFFEURI")
         /\ authCall.uri.Scheme = "spiffe"
         /\ authCall.uri.Host = authCall.expectedIssuer )
       => LET fits == {f \in IdTokens \X IdTokens :
                         IsIdentityPath(authCall.uri.Path, f[1], f[2])}
          IN  IF fits = {}
              THEN /\ authCall.result.identity = NoIdentity
                   /\ authCall.result.err # ""
              ELSE \A f \in fits :
                     authCall.result.identity =
                        [UserID |-> f[2], OrgID |-> f[1],
                         Issuer |-> authCall.expectedIssuer]
    /\ ( /\ Called("parseSPIFFEURI") \/ Called("ExtractUserIdentity")
         /\ authCall.result.identity # NoIdentity )
       => /\ authCall.result.identity.UserID # ""
          /\ authCall.result.identity.OrgID # ""
          /\ authCall.result.identity.Issuer = authCall.expectedIssuer

\* a parse that succeeded
C16_Witness ==
    /\ Called("parseSPIFFEURI")
    /\ authCall.uri.Path = <<"/", "orgs", "/", "o1", "/", "users", "/", "u2">>
    /\ authCall.result.identity = [UserID |-> "u2", OrgID |-> "o1", Issuer |-> Issuer]

\* the positions of the URIs that parse
Parsing(uris, expectedIssuer) ==
    {i \in DOMAIN uris : parseSPIFFEURI(uris[i], expectedIssuer).identity # NoIdentity}

\* C17: ExtractUserIdentity returns the identity of the first SAN URI, in the
\* order of the certificate, that parses, and fails only if none parses.
C17_FirstParsingURI ==
    Called("ExtractUserIdentity") =>
        LET uris == authCall.cert.URIs
            ok == Parsing(uris, authCall.expectedIssuer)
        IN  IF ok = {}
            THEN authCall.result.identity = NoIdentity
            ELSE \E i \in ok :
                    /\ \A j \in ok : i <= j
                    /\ authCall.result = parseSPIFFEURI(uris[i], authCall.expectedIssuer)

\* two URIs parse and name different users: the first one is returned
C17_Witness ==
    /\ Called("ExtractUserIdentity")
    /\ Cardinality(Parsing(authCall.cert.URIs, authCall.expectedIssuer)) = 2
    /\ authCall.result.identity.UserID = "u1"
    /\ parseSPIFFEURI(authCall.cert.URIs[2], authCall.expectedIssuer).identity.UserID = "u2"

\* C18: a failed extraction tells why: the error of a certificate that has a
\* SAN URI of the identity scheme is not the error of a certificate without.
C18_DistinctFailureKinds ==
    ( /\ Called("ExtractUserIdentity")
      /\ authCall.result.identity = NoIdentity
      /\ \E i \in DOMAIN authCall.cert.URIs :
            authCall.cert.URIs[i].Scheme = "spiffe" )
    => authCall.result.err # ExtractUserIdentity([authCall.cert EXCEPT !.URIs = <<>>],
                                                 authCall.expectedIssuer).err

\* C19: ValidateIssuerMatch succeeds exactly when the issuer's common name is
\* the expected trust domain, or a subdomain of it, a wildcard prefix aside.
C19_IssuerMatch ==
    Called("ValidateIssuerMatch") =>
        LET cn == TrimWildcard(authCall.cert.Issuer.CommonName)
        IN  authCall.ok <=>
               \/ cn = authCall.expectedIssuer
               \/ IsSubdomain(cn, authCall.expectedIssuer)

\* one of the three certificate checks of the handler fails on cert
AuthFails(cert) ==
    \/ ~ValidateCertificate(cert, CAPool)
    \/ ~ValidateIssuerMatch(cert, Issuer)
    \/ ExtractUserIdentity(cert, Issuer).identity = NoIdentity

Inspected(r) == r.hs /\ r.pc \notin {"new", "accepted", "start"}

\* C20: when the re-validation of the certificate, the issuer validation or
\* the identity extraction fails, the handler has returned and closed the
\* connection without a write to the client, a read, a query or a dial.
C20_SilentAbort ==
    \A c \in Conns :
        LET r == conn[c]
        IN  (Inspected(r) /\ AuthFails(r.cert)) =>
              /\ r.pc = "done" /\ r.clientClosed
              /\ r.toClient = <<>>
              /\ r.script = <<>>
              /\ r.queries = 0 /\ r.routed = "none" /\ r.dialed = "none"

\* a handler that returned because the issuer validation failed
C20_Witness ==
    \E c \in Conns :
        /\ Inspected(conn[c])
        /\ ValidateCertificate(conn[c].cert, CAPool)
        /\ ~ValidateIssuerMatch(conn[c].cert, Issuer)
        /\ conn[c].pc = "done"

\* C21: the routing key the handler uses is the bytes the client sent before
\* its first line feed, a trailing carriage return removed, also when the key
\* line arrives in several reads or together with later bytes.
C21_KeyFraming ==
    \A c \in Conns :
        LET r == conn[c]
        IN  (r.connectID # <<>> /\ FirstLF(Flatten(r.script)) > 0) =>
              r.connectID = KeyLineOf(r.script)

\* the path lies under /tinyscale/v1/host-exec/
UnderHostExec(path) ==
    /\ Len(path) >= 7
    /\ \A i \in 1..7 : path[i] = HostExecPrefix[i]

DeniedLine(r) == ErrorLine(Wrap("routing failed", NotAuthorized(r)))

\* the handler returned on an error of RouteConnection after its n-th query
RefusedAfter(r, n) ==
    /\ r.pc = "done" /\ r.clientClosed
    /\ r.queries = n
    /\ r.routed = "err" /\ r.dialed = "none"
    /\ Len(r.toClient) = 1

\* C24: IsUserAuthorized tests the organization of the host before any grant:
\* for a host of another organization the first query is the only one, also
\* when the user is named in the host's grants, and the client is answered
\* with the line a host of its own organization without a grant is answered
\* with, which names the user and the key only.
C24_OrgCheckFirst ==
    [][\A c \in Conns :
        LET r == conn[c]
            got == GetBackendHostByConnectID(hosts, r.connectID)
            decided == r.pc = "route" /\ conn'[c] # r /\ ~DbFailed(conn'[c])
            otherOrg == got.err = NoErr /\ got.host.OrgID # r.identity.OrgID
            noGrant == /\ got.err = NoErr /\ got.host.OrgID = r.identity.OrgID
                       /\ r.identity.UserID \notin got.host.UserIDs
                       /\ got.host.TeamIDs = {}
        IN  (decided /\ (otherOrg \/ noGrant)) =>
              /\ RefusedAfter(conn'[c], 1)
              /\ conn'[c].toClient = <<DeniedLine(r)>>]_vars

\* a user named in the grants of a host of another organization was refused
C24_Witness ==
    \E c \in Conns :
        LET r == conn[c]
        IN  /\ RefusedAfter(r, 1)
            /\ r.toClient = <<DeniedLine(r)>>
            /\ HostExists(r.connectID)
            /\ hosts[r.connectID].OrgID # r.identity.OrgID
            /\ r.identity.UserID \in hosts[r.connectID].UserIDs

\* C25: the first write of the server on a connection is OK or one ERROR line,
\* never both on one connection; the ERROR line ends the bytes the server
\* writes, and the connection is closed after it.
C25_OneStatusLine ==
    \A c \in Conns :
        LET r == conn[c]
            bytes == Flatten(r.toClient)
        IN  /\ r.toClient # <<>> =>
                 \/ r.toClient[1] = OKLine
                 \/ r.toClient[1][1] = "ERROR: "
            /\ ~(OKSent(r) /\ ErrorLinesOf(r) # {})
            /\ (r.toClient # <<>> /\ r.toClient[1][1] = "ERROR: ") =>
                 /\ FirstLF(bytes) = Len(bytes)
                 /\ r.pc = "done" /\ r.clientClosed

\* C26: after OK the server writes to the client only bytes the backend sent,
\* in their order; a copy that ends on a broken pipe or a reset adds no ERROR
\* line and no other byte, and once the handler has its first copy result
\* both sockets are closed.
C26_OpaqueAfterOK ==
    \A c \in Conns :
        LET r == conn[c]
        IN  OKSent(r) =>
              /\ r.toClient[1] = OKLine
              /\ IsPrefix(Flatten(Tail(r.toClient)), Flatten(r.bscript))
              /\ ErrorLinesOf(r) = {}
              /\ r.pc \in {"wait2", "done"} => r.clientClosed /\ r.backendClosed

\* a copy ended on a broken pipe and the handler has closed both sockets
C26_Witness ==
    \E c \in Conns :
        /\ OKSent(conn[c])
        /\ conn[c].pc = "wait2"
        /\ "pipe" \in Range(conn[c].errChan)
        /\ conn[c].clientClosed /\ conn[c].backendClosed

\* the position of a handler in the order of its steps
StepRank(pc) ==
    CASE pc = "new" -> 0
      [] pc = "accepted" -> 0
      [] pc = "start" -> 1
      [] pc = "readKey" -> 2
      [] pc = "route" -> 3
      [] pc = "teamq" -> 4
      [] pc = "fetch" -> 5
      [] pc = "dial" -> 6
      [] pc = "splice" -> 7
      [] pc = "wait2" -> 8
      [] pc = "done" -> 9
      [] pc = "crashed" -> 9

\* the certificate checks, the identity extraction and the key read succeeded
KeyReadDone(r) ==
    /\ r.hs
    /\ ValidateCertificate(r.cert, CAPool)
    /\ ValidateIssuerMatch(r.cert, Issuer)
    /\ r.identity # NoIdentity
    /\ r.identity = ExtractUserIdentity(r.cert, Issuer).identity
    /\ r.connectID # <<>>

\* C27: a handler moves through its steps in one order and never back; a
\* database query is made only after the certificate validation, the issuer
\* validation, the identity extraction and the read of a non-empty key have
\* succeeded; a backend is dialed only after RouteConnection succeeded; a
\* handler that returns from an earlier step has made no query and no dial.
C27_StepOrder ==
    [][\A c \in Conns :
        LET r == conn[c]
            r2 == conn'[c]
        IN  /\ StepRank(r2.pc) >= StepRank(r.pc)
            /\ r2.queries > r.queries =>
                 /\ r.pc \in {"route", "teamq", "fetch"}
                 /\ KeyReadDone(r)
            /\ r2.dialed # r.dialed =>
                 /\ r.pc = "dial" /\ r.routed = "ok" /\ r.queries >= 2
                 /\ KeyReadDone(r)
            /\ (r.pc \in {"start", "readKey"} /\ r2.pc = "done") =>
                 /\ r2.queries = 0 /\ r2.routed = "none" /\ r2.dialed = "none"]_vars

\* a handler that made its queries and dialed after all earlier steps
C27_Witness ==
    \E c \in Conns :
        /\ KeyReadDone(conn[c])
        /\ conn[c].queries >= 2
        /\ conn[c].dialed = "ok"

\* C28: the read deadline readConnectID sets is cleared on each of its
\* returns: it is in effect only between SetReadDeadline and the end of the
\* key read, never during routing, the dial or the splice, nor after the
\* handler has returned.
C28_DeadlineCleared ==
    \A c \in Conns :
        LET r == conn[c]
        IN  /\ r.readDeadline => r.pc = "readKey"
            /\ r.pc \in {"route", "teamq", "fetch", "dial", "splice", "wait2",
                         "done"} => ~r.readDeadline

\* a splice established after the key read, with no read deadline set
C28_Witness ==
    \E c \in Conns :
        /\ conn[c].pc = "splice"
        /\ conn[c].connectID # <<>>
        /\ ~conn[c].readDeadline

\* the write of a RouteConnection that found the host without an address
NoAddressLine(r) ==
    ErrorLine(Wrap("routing failed",
                   <<"backend host">> \o r.connectID
                       \o <<"has no internal IP address">>))

\* C29: when the host row RouteConnection fetches for an authorized user has
\* an empty internal address, RouteConnection fails: no target is returned,
\* nothing is dialed, the client is sent one ERROR line and no OK, and the
\* connection is closed; a RouteTarget never has an empty address.
C29_EmptyAddress ==
    [][\A c \in Conns :
        LET r == conn[c]
            r2 == conn'[c]
            got == GetBackendHostByConnectID(hosts, r.connectID)
        IN  /\ ( /\ r.pc = "fetch" /\ r2 # r /\ ~DbFailed(r2)
                 /\ got.err = NoErr /\ got.host.InternalIPAddr = "" ) =>
                  /\ RefusedAfter(r2, r.queries + 1)
                  /\ r2.target = ""
                  /\ r2.toClient = <<NoAddressLine(r)>>
                  /\ ~OKSent(r2)
            /\ r2.routed = "ok" => r2.target # ""
            /\ r2.dialed # "none" => r2.target # ""]_vars

\* an authorized user was refused because the host has no address
C29_Witness ==
    \E c \in Conns :
        LET r == conn[c]
        IN  /\ r.pc = "done" /\ r.routed = "err" /\ r.dialed = "none"
            /\ r.toClient = <<NoAddressLine(r)>>
            /\ HostExists(r.connectID)
            /\ hosts[r.connectID].InternalIPAddr = ""
            /\ GrantHolds(r.identity.UserID, r.identity.OrgID, r.connectID)

(***************************************************************************)
(* SpecRouting: Spec, and the queries of RouteConnection return: the pool  *)
(* answers, or the context of the call ends (cancelled, or 30 s passed)    *)
(***************************************************************************)
SpecRouting ==
    /\ Spec
    /\ \A c \in Conns : /\ WF_vars(RouteAuthorize(c))
                        /\ WF_vars(RouteTeamQuery(c))
                        /\ WF_vars(RouteFetch(c))

\* RouteConnection has been called, or is about to be, and has not returned
Routing(r) == r.pc \in {"route", "teamq", "fetch"}

\* C30: once Stop has cancelled the context of the proxy, the next query of a
\* RouteConnection in flight, and the first query of one that starts after the
\* cancellation, fails: the call returns with an error, it does return, and the
\* handler, closed, has sent no OK and dialed no backend.
C30_CancelFailsRouting ==
    /\ [][\A c \in Conns :
            LET r == conn[c]
                r2 == conn'[c]
            IN  (ctxDone /\ Routing(r) /\ r2 # r) =>
                  /\ r2.pc = "done" /\ r2.clientClosed
                  /\ r2.routed = "err" /\ DbFailed(r2)
                  /\ r2.queries = r.queries + 1
                  /\ ~OKSent(r2) /\ r2.dialed = "none"]_vars
    /\ \A c \in Conns :
          (ctxDone /\ Routing(conn[c])) ~>
             (conn[c].pc = "done" /\ conn[c].routed = "err")

\* a handler whose RouteConnection failed on its first query, Stop having
\* cancelled the context
C30_Witness ==
    \E c \in Conns :
        /\ ctxDone
        /\ conn[c].pc = "done" /\ conn[c].routed = "err"
        /\ conn[c].queries = 1
        /\ DbFailed(conn[c])

\* C31: the bytes the client sends after the line feed that ends its key
\* line are no part of the routing key, also when they arrive in the read that
\* returns the key, and the bytes forwarded to the backend are those bytes, in
\* order, from their first on.
C31_NoByteLost ==
    \A c \in Conns :
        LET r == conn[c]
            bytes == Flatten(r.script)
        IN  (r.connectID # <<>> /\ FirstLF(bytes) > 0) =>
              /\ Len(r.connectID) < FirstLF(bytes)
              /\ r.dialed = "ok" =>
                   IsPrefix(r.toBackend, DataOf(r.script))

\* C32: the row RouteConnection reads the BackendAddr from satisfies the
\* authorization of the caller: when RouteConnection returns a target, the row
\* of the key it has just fetched grants the user of that organization, also
\* when the provisioner has written the row since the authorization check.
C32_TargetRowAuthorized ==
    [][\A c \in Conns :
        LET r == conn[c]
        IN  (r.routed # "ok" /\ conn'[c].routed = "ok") =>
              /\ HostExists(r.connectID)
              /\ conn'[c].target = hosts[r.connectID].InternalIPAddr
              /\ IsUserAuthorized(hosts, teams, r.identity.UserID,
                                  r.identity.OrgID, r.connectID).ok]_vars

\* C33: when the wait of Stop ends because the wait group reached zero,
\* the accept loop has returned and every handler that was started has
\* returned, and from then on no handler is started: Stop takes its graceful
\* branch only then.
C33_WaitGroupCovers ==
    [][ /\ (doneClosed' \/ stopHow' = "graceful") =>
              /\ wg' = 0
              /\ acceptPc' = "returned"
              /\ \A c \in Conns : conn'[c].pc \in {"new", "done"}
        /\ doneClosed => ~Dispatched
        /\ wg' >= 0 ]_vars

\* Stop went through its graceful branch after a handler had returned
C33_Witness ==
    /\ stopHow = "graceful"
    /\ stopPc = "returned"
    /\ \E c \in Conns : conn[c].pc = "done"

TcpRunning(hc) ==
    (IF hc.c2r = "run" THEN 1 ELSE 0) + (IF hc.r2c = "run" THEN 1 ELSE 0)

\* C34: in TCPProxy.handleConnection, once a copy direction has finished the
\* handler returns, and a returned handler that had dialed has closed the
\* client and the remote connection; the copy goroutines still running always
\* find room in errCh for their result, and after the handler's return no
\* copy goroutine keeps running.
C34_NoCopyLeaked ==
    /\ [](\A i \in TcpConns :
            LET hc == tcpProxy.h[i]
            IN  /\ (hc.pc = "returned" /\ hc.dialed) =>
                      hc.clientClosed /\ hc.remoteClosed
                /\ Len(hc.errCh) + TcpRunning(hc) <= TcpErrChCap)
    /\ \A i \in TcpConns :
          /\ (tcpProxy.h[i].pc = "wait" /\ TcpRunning(tcpProxy.h[i]) < 2)
                ~> (tcpProxy.h[i].pc = "returned")
          /\ (tcpProxy.h[i].pc = "returned")
                ~> (TcpRunning(tcpProxy.h[i]) = 0)

C34_Witness ==
    \E i \in TcpConns :
        LET hc == tcpProxy.h[i]
        IN  /\ hc.pc = "returned"
            /\ hc.dialed
            /\ hc.c2r = "done"
            /\ hc.r2c = "done"
            /\ Len(hc.errCh) = 1

\* C35: after TCPProxy.Close has returned, no connection handler is running
\* and ListenAndServe starts none, under every interleaving of Close with the
\* accept loop.
C35_CloseIsGraceful ==
    tcpProxy.closePc = "returned" =>
        \A i \in TcpConns : tcpProxy.h[i].pc \in {"none", "returned"}

\* C36: once ListenAndServe, having listened, and Close have both returned,
\* the listening socket is closed and ListenAndServe has returned nil, also
\* when Close ran before ListenAndServe stored its listener.
C36_NoListenerLeft ==
    (/\ tcpProxy.closePc = "returned"
     /\ tcpProxy.lsPc = "returned"
     /\ tcpProxy.socket # "none") =>
        /\ tcpProxy.socket = "closed"
        /\ tcpProxy.lsRet = "nil"

RetryAnswers == {"authorization_pending", "slow_down"}

\* C37: PollForToken always returns; it returns the token when an answer
\* carries one, an error in the very step an answer is neither a token nor
\* authorization_pending nor slow_down, and "device authorization expired"
\* only at or after the deadline with no answer other than
\* authorization_pending and slow_down; every token request is issued before
\* the deadline, and two consecutive requests are at least max(interval, 5)
\* seconds apart.
C37_PollTerminates ==
    /\ <>(poll.pc = "returned")
    /\ [](poll.pc = "returned" =>
            \/ /\ poll.token
               /\ poll.answer = "token"
               /\ poll.err = "nil"
            \/ /\ ~poll.token
               /\ poll.answer \in TokenAnswers \ (RetryAnswers \cup {"token"})
               /\ poll.err \notin {"nil", "none", "device authorization expired"}
            \/ /\ ~poll.token
               /\ poll.answer \in RetryAnswers \cup {"none"}
               /\ poll.err = "device authorization expired"
               /\ poll.now >= poll.deadline)
    /\ [](poll.answer \in TokenAnswers \ RetryAnswers => poll.pc = "returned")
    /\ [](poll.reqAt # -1 => poll.reqAt < poll.deadline)
    /\ [](poll.prevReqAt # -1 =>
            poll.reqAt - poll.prevReqAt >=
              (IF poll.interval > 5 THEN poll.interval ELSE 5))

C37_Witness ==
    /\ poll.pc = "returned"
    /\ poll.err = "device authorization expired"
    /\ poll.answer = "slow_down"
    /\ poll.prevReqAt # -1
    /\ poll.interval = 6

\* C38: when the answer to a token request is slow_down, the delay before the
\* next request is longer than the delay used before it.
C38_SlowDownLengthens ==
    [][(poll.pc = "await" /\ poll'.answer = "slow_down") =>
          poll'.pollInterval > poll.pollInterval]_vars

\* the stop command has written the terminate file from a pid file that holds
\* the PID of the daemon, and the daemon is running
StopWroteOwnPid ==
    /\ daemon.stopPc = "returned"
    /\ daemon.stopErr = "nil"
    /\ Atoi(daemon.pidFile).ok
    /\ Atoi(daemon.pidFile).val = DaemonPid
    /\ daemon.mainPc = "select"

\* the watcher sends the file termination only on a terminate file whose
\* content parses as the PID of the daemon
OnlyOwnPidTerminates ==
    [][daemon'.fileTermination > daemon.fileTermination =>
          /\ daemon.termExists
          /\ Atoi(daemon.termContent).ok
          /\ Atoi(daemon.termContent).val = DaemonPid]_vars

\* C39 as stated: the file signal terminates the daemon only on a terminate
\* file that parses as its own PID, and once the stop command has written the
\* daemon's PID to the terminate file the daemon eventually has removed the
\* terminate file, closed the proxy and exited with a nil result.
C39_StopProtocol ==
    /\ OnlyOwnPidTerminates
    /\ [](daemon.result = "nil" => daemon.readOwn)
    /\ StopWroteOwnPid ~> (/\ daemon.mainPc = "exited"
                           /\ daemon.result = "nil"
                           /\ daemon.proxyClosed
                           /\ ~daemon.termExists)

\* C39, amended: the file signal terminates the daemon only on a terminate
\* file that parses as its own PID; once the stop command has written the
\* daemon's PID the daemon eventually exits, and unless a signal was delivered
\* or ListenAndServe had returned it has then removed the terminate file,
\* closed the proxy and exited with a nil result.
C39_StopProtocolAmended ==
    /\ OnlyOwnPidTerminates
    /\ [](daemon.result = "nil" => daemon.readOwn /\ daemon.proxyClosed)
    /\ StopWroteOwnPid ~> (daemon.mainPc = "exited")
    /\ []((/\ daemon.stopErr = "nil"
           /\ Atoi(daemon.pidFile).val = DaemonPid
           /\ daemon.mainPc = "exited"
           /\ daemon.signalled = 0
           /\ ~daemon.serverReturned) =>
             /\ daemon.result = "nil"
             /\ daemon.proxyClosed
             /\ ~daemon.termExists)

C39_Witness ==
    /\ daemon.stopErr = "nil"
    /\ daemon.pidFile = <<"0", "7">>
    /\ daemon.otherWrites = 1
    /\ daemon.mainPc = "exited"
    /\ daemon.result = "nil"
    /\ daemon.signalled = 0
    /\ ~daemon.serverReturned
    /\ ~daemon.termExists

\* C40: in each handler's Connect, a dial result is never consumed after the
\* context was cancelled; a context cancelled before the dial result is
\* consumed leads to Connect having returned context.Canceled, the dial
\* goroutine having returned and its stream, if any, closed; and a dialed
\* stream is given to at most one endpoint, is never both given and closed,
\* and is given or closed once Connect and the goroutine have returned.
C40_CancellableDial ==
    /\ [](\A h \in ProtocolHandlers :
            /\ connect[h].consumed # "cancelled"
            /\ connect[h].handed <= 1
            /\ ~(connect[h].handed = 1 /\ connect[h].stream = "closed")
            /\ (connect[h].mainPc = "returned" /\ connect[h].goPc = "returned"
                  /\ connect[h].stream = "open") => connect[h].handed = 1)
    /\ \A h \in ProtocolHandlers :
          (connect[h].ctxDone /\ connect[h].consumed = "none")
              ~> (/\ connect[h].mainPc = "returned"
                  /\ connect[h].result = "canceled"
                  /\ connect[h].goPc = "returned"
                  /\ connect[h].stream \in {"none", "closed"})

C40_Witness ==
    /\ connect["sync"].result = "canceled"
    /\ connect["sync"].goPc = "returned"
    /\ connect["sync"].stream = "closed"
    /\ connect["forwarding"].result = "endpoint"
    /\ connect["forwarding"].ctxDone
    /\ connect["tssync"].result = "dial error"

=============================================================================
